---- MODULE Spec2Model ----
(***************************************************************************)
(* A model of the toposphere REST backend: accounts, notes, todo lists and *)
(* todo items over one relational store.  Every HTTP handler is one action *)
(* (the sequential specifications) or a lookup step followed by a write    *)
(* step (the concurrent specification).  Strings are sequences of          *)
(* one-character strings, so that case folding and substring search are    *)
(* computed, not assumed.                                                  *)
(***************************************************************************)
EXTENDS Integers, Sequences, FiniteSets, TLC

VARIABLES
    users,       \* User rows:      id -> [email, password, first_name, last_name, date_joined]
    notes,       \* Note rows:      id -> [user, title, content, created_at, updated_at]
    todo_lists,  \* TodoList rows:  id -> [user, title, description, created_at, updated_at]
    todo_items,  \* TodoItem rows:  id -> [todo_list, title, description, is_completed,
                 \*                        created_at, updated_at, completed_at]
    seqs,        \* the auto-increment sequences: last id handed out, per table
    now,         \* the server clock read by timezone.now() / auto_now
    last,        \* the last completed HTTP exchange: request and response
    workers      \* requests in flight between their lookup and their write

vars == <<users, notes, todo_lists, todo_items, seqs, now, last, workers>>
store == <<users, notes, todo_lists, todo_items>>

----------------------------------------------------------------------------
(* Bounds of the model *)

MaxUserId == 2    \* users ever registered
MaxRows == 2      \* notes, lists and items ever created, together (Spec)
MaxCascadeRows == 4  \* the same, in SpecCascade
MaxTodoRows == 3  \* lists and items ever created, together (SpecItems)
MaxNoteRows == 3  \* notes ever created (SpecNotes)
MaxListRows == 2  \* lists ever created (SpecLists)
MaxAccountRows == 2  \* notes, lists and items ever created, together (SpecAccounts)
MaxAuthUsers == 1  \* users ever registered (SpecAuth)
MaxAuthRows == 2  \* notes, lists and items ever created, together (SpecAuth)
MaxConcUsers == 1  \* users ever registered (SpecConc)
MaxOrderRows == 3  \* notes, lists and items ever created, together (SpecOrder)
MaxConcRows == 2  \* lists and items ever created, together (SpecConc)
MaxStampRows == 2  \* notes, lists and items ever created, together (SpecStamps)
MaxValidRows == 2  \* notes, lists and items ever created, together (SpecValid)
MaxNestedLists == 2  \* lists ever created (SpecNested)
MaxNestedItems == 2  \* items ever created (SpecNested)
MaxRaceRows == 2  \* notes, lists and items ever created, together (SpecRace)
MaxFrameRows == 2  \* notes, lists and items ever created, together (SpecFrame)
MaxTime == 1      \* ticks of the clock
NumWorkers == 2   \* requests in flight at once

----------------------------------------------------------------------------
(* Strings *)

None == <<>>
Some(x) == <<x>>

UpperCase == <<"A","B","C","D","E","F","G","H","I","J","K","L","M",
               "N","O","P","Q","R","S","T","U","V","W","X","Y","Z">>
LowerCase == <<"a","b","c","d","e","f","g","h","i","j","k","l","m",
               "n","o","p","q","r","s","t","u","v","w","x","y","z">>
Digits == {"0","1","2","3","4","5","6","7","8","9"}

Range(s) == {s[i] : i \in DOMAIN s}

\* str.strip(), for the one whitespace character the model sends
Strip(s) ==
    IF s = <<>> THEN s
    ELSE IF s[1] # " " /\ s[Len(s)] # " " THEN s
    ELSE LET ks == {k \in DOMAIN s : s[k] # " "} IN
         IF ks = {} THEN <<>>
         ELSE SubSeq(s, CHOOSE k \in ks : \A j \in ks : k <= j,
                        CHOOSE k \in ks : \A j \in ks : k >= j)

ToLowerChar(c) ==
    IF \E i \in DOMAIN UpperCase : UpperCase[i] = c
    THEN LowerCase[CHOOSE i \in DOMAIN UpperCase : UpperCase[i] = c]
    ELSE c

ToLower(s) == [i \in DOMAIN s |-> ToLowerChar(s[i])]

\* needle occurs in hay as a contiguous run of characters
Contains(hay, needle) ==
    \E k \in 0..(Len(hay) - Len(needle)) :
        \A i \in 1..Len(needle) : hay[k + i] = needle[i]


\* the case-sensitive __contains lookup
ContainsExactCase(hay, needle) == Contains(hay, needle)

\* the ORM's __icontains lookup: a case-insensitive substring match
IContains(hay, needle) == Contains(ToLower(hay), ToLower(needle))

----------------------------------------------------------------------------
(* Requests, responses and authentication *)

HasField(body, f) == f \in DOMAIN body

\* serializers.CharField (trim_whitespace=True, allow_blank=False): the
\* validated value of a field that is present, and the error of a required one
CharValue(body, f) == Strip(body[f])

RequiredCharErrors(body, f) ==
    IF ~HasField(body, f) \/ CharValue(body, f) = <<>> THEN {f} ELSE {}

Exchange(op, cred, pk, body, status, data) ==
    [op |-> op, cred |-> cred, pk |-> pk, body |-> body, status |-> status, data |-> data]

Respond(op, cred, pk, body, status, data) ==
    last' = Exchange(op, cred, pk, body, status, data)

\* A bearer credential is None (no Authorization header) or Some(u), a token
\* issued to user id u.  It resolves to u while that user's row exists.
Resolve(cred) ==
    IF cred # None /\ cred[1] \in DOMAIN users THEN cred ELSE None

IsAuthenticated(cred) == Resolve(cred) # None

\* the credentials a client can present: none, or a token issued at some time
Credentials == {None} \cup {Some(u) : u \in 1..seqs.user}

Remove(table, ids) == [i \in (DOMAIN table) \ ids |-> table[i]]

----------------------------------------------------------------------------
(* Accounts *)

\* a validator that forgets the digit
PasswordErrorNoDigitCheck(password) ==
    IF Len(password) < 8 THEN Some("password_too_short")
    ELSE IF Range(password) \cap Range(UpperCase) = {} THEN Some("password_no_upper")
    ELSE IF Range(password) \cap Range(LowerCase) = {} THEN Some("password_no_lower")
    ELSE None

\* CustomPasswordValidator.validate: None when acceptable, else the error code
PasswordError(password) ==
    IF Len(password) < 8 THEN Some("password_too_short")
    ELSE IF Range(password) \cap Range(UpperCase) = {} THEN Some("password_no_upper")
    ELSE IF Range(password) \cap Range(LowerCase) = {} THEN Some("password_no_lower")
    ELSE IF Range(password) \cap Digits = {} THEN Some("password_no_digit")
    ELSE None

\* the stored form of a password (set_password) and its check (check_password)
MakePassword(raw) == <<"hash", raw>>
CheckPassword(user, raw) == users[user].password = MakePassword(raw)

\* a validate_email that finds no user
EmailExistsNever(email) == FALSE

EmailExists(email) == \E u \in DOMAIN users : users[u].email = email

\* RegisterSerializer.is_valid: the field errors, as a set of field names
RegisterErrors(body) ==
    (IF RequiredCharErrors(body, "email") # {} THEN {"email"}
     ELSE IF EmailExists(CharValue(body, "email")) THEN {"email"} ELSE {})
    \cup
    (IF RequiredCharErrors(body, "password") # {} THEN {"password"}
     ELSE IF PasswordError(CharValue(body, "password")) # None THEN {"password"}
     ELSE {})

OptField(body, f) == IF HasField(body, f) THEN CharValue(body, f) ELSE <<>>

\* POST /auth/register
Register(body) ==
    /\ IF RegisterErrors(body) # {}
       THEN /\ Respond("register", None, 0, body, 400, RegisterErrors(body))
            /\ UNCHANGED <<users, seqs>>
       ELSE LET id == seqs.user + 1 IN
            /\ users' = (id :> [email |-> CharValue(body, "email"),
                                password |-> MakePassword(CharValue(body, "password")),
                                first_name |-> OptField(body, "first_name"),
                                last_name |-> OptField(body, "last_name"),
                                date_joined |-> now]) @@ users
            /\ seqs' = [seqs EXCEPT !.user = id]
            /\ Respond("register", None, 0, body, 201, Some(id))
    /\ UNCHANGED <<notes, todo_lists, todo_items, now, workers>>


\* an account deletion that leaves the user's notes behind
NotesOfUserNone(u) == {}

\* the rows removed with a user by on_delete=CASCADE
NotesOfUser(u) == {n \in DOMAIN notes : notes[n].user = u}
ListsOfUser(u) == {l \in DOMAIN todo_lists : todo_lists[l].user = u}
ItemsOfLists(ls) == {i \in DOMAIN todo_items : todo_items[i].todo_list \in ls}

\* an account deletion that removes what the user owns and keeps the user
DeleteUserKeepsRow(u) ==
    /\ users' = users
    /\ notes' = Remove(notes, NotesOfUser(u))
    /\ todo_lists' = Remove(todo_lists, ListsOfUser(u))
    /\ todo_items' = Remove(todo_items, ItemsOfLists(ListsOfUser(u)))

\* user.delete(): the user row and everything that cascades from it, in one
\* transaction
DeleteUserCascade(u) ==
    /\ users' = Remove(users, {u})
    /\ notes' = Remove(notes, NotesOfUser(u))
    /\ todo_lists' = Remove(todo_lists, ListsOfUser(u))
    /\ todo_items' = Remove(todo_items, ItemsOfLists(ListsOfUser(u)))

\* DeleteAccountSerializer.is_valid
DeleteAccountErrors(u, body) ==
    IF RequiredCharErrors(body, "password") # {} THEN {"password"}
    ELSE IF ~CheckPassword(u, CharValue(body, "password")) THEN {"password"}
    ELSE {}

\* POST /auth/delete-account
DeleteAccount(cred, body) ==
    /\ IF ~IsAuthenticated(cred)
       THEN /\ Respond("delete_account", cred, 0, body, 401, {})
            /\ UNCHANGED store
       ELSE IF DeleteAccountErrors(cred[1], body) # {}
       THEN /\ Respond("delete_account", cred, 0, body, 400,
                       DeleteAccountErrors(cred[1], body))
            /\ UNCHANGED store
       ELSE /\ DeleteUserCascade(cred[1])
            /\ Respond("delete_account", cred, 0, body, 200, {})
    /\ UNCHANGED <<seqs, now, workers>>

\* authenticate(email=, password=): the user of that email when the password
\* checks, else none
Authenticate(email, password) ==
    IF \E u \in DOMAIN users : users[u].email = email /\ CheckPassword(u, password)
    THEN Some(CHOOSE u \in DOMAIN users :
                  users[u].email = email /\ CheckPassword(u, password))
    ELSE None

\* a login that tells an unknown email from a wrong password
LoginErrorsRevealing(body) ==
    IF RequiredCharErrors(body, "email") \cup RequiredCharErrors(body, "password") # {}
    THEN RequiredCharErrors(body, "email") \cup RequiredCharErrors(body, "password")
    ELSE IF ~EmailExists(CharValue(body, "email")) THEN {"email"}
    ELSE IF Authenticate(CharValue(body, "email"), CharValue(body, "password")) = None
    THEN {"non_field_errors"}
    ELSE {}

\* LoginSerializer.is_valid: the field errors, else the error of validate()
LoginErrors(body) ==
    IF RequiredCharErrors(body, "email") \cup RequiredCharErrors(body, "password") # {}
    THEN RequiredCharErrors(body, "email") \cup RequiredCharErrors(body, "password")
    ELSE IF Authenticate(CharValue(body, "email"), CharValue(body, "password")) = None
    THEN {"non_field_errors"}
    ELSE {}

\* POST /auth/login: the data of a 200 is the user the tokens are issued to
Login(body) ==
    /\ IF LoginErrors(body) # {}
       THEN Respond("login", None, 0, body, 400, LoginErrors(body))
       ELSE Respond("login", None, 0, body, 200,
                    Authenticate(CharValue(body, "email"), CharValue(body, "password")))
    /\ UNCHANGED <<store, seqs, now, workers>>

\* a serializer whose validate() does not check the old password
ChangePasswordErrorsNoOldCheck(u, body) ==
    RequiredCharErrors(body, "old_password")
    \cup (IF RequiredCharErrors(body, "new_password") # {} THEN {"new_password"}
          ELSE IF PasswordError(CharValue(body, "new_password")) # None
          THEN {"new_password"} ELSE {})

\* ChangePasswordSerializer.is_valid: validate() and its check of the old
\* password run only when no field has an error of its own
ChangePasswordErrors(u, body) ==
    LET field_errors ==
            RequiredCharErrors(body, "old_password")
            \cup (IF RequiredCharErrors(body, "new_password") # {} THEN {"new_password"}
                  ELSE IF PasswordError(CharValue(body, "new_password")) # None
                  THEN {"new_password"} ELSE {})
    IN  IF field_errors # {} THEN field_errors
        ELSE IF ~CheckPassword(u, CharValue(body, "old_password")) THEN {"old_password"}
        ELSE {}

\* set_password() without the save()
SetPasswordUnsaved(u, new_password) == users' = users

\* user.set_password(new_password); user.save()
SetPassword(u, new_password) ==
    users' = [users EXCEPT ![u].password = MakePassword(new_password)]

\* POST /auth/change-password
ChangePassword(cred, body) ==
    /\ IF ~IsAuthenticated(cred)
       THEN /\ Respond("change_password", cred, 0, body, 401, {})
            /\ UNCHANGED users
       ELSE IF ChangePasswordErrors(cred[1], body) # {}
       THEN /\ Respond("change_password", cred, 0, body, 400,
                       ChangePasswordErrors(cred[1], body))
            /\ UNCHANGED users
       ELSE /\ SetPassword(cred[1], CharValue(body, "new_password"))
            /\ Respond("change_password", cred, 0, body, 200, {})
    /\ UNCHANGED <<notes, todo_lists, todo_items, seqs, now, workers>>

\* a JSON null, where a body carries one instead of a string
Null == <<"null">>

\* ProfileSerializer.is_valid: first_name and last_name are optional and may
\* be blank, but not null
ProfileErrors(body) ==
    {f \in {"first_name", "last_name"} : HasField(body, f) /\ body[f] = Null}

\* ProfileSerializer.data
ProfileData(u) ==
    [id |-> u, email |-> users[u].email, first_name |-> users[u].first_name,
     last_name |-> users[u].last_name, date_joined |-> users[u].date_joined]

\* GET /auth/profile
ProfileGet(cred) ==
    /\ IF ~IsAuthenticated(cred)
       THEN Respond("profile_get", cred, 0, <<>>, 401, {})
       ELSE Respond("profile_get", cred, 0, <<>>, 200, ProfileData(cred[1]))
    /\ UNCHANGED <<store, seqs, now, workers>>

\* a serializer that lets the body set the email as well
ProfileApplyWritesEmail(row, body) ==
    [row EXCEPT !.first_name = IF HasField(body, "first_name")
                               THEN CharValue(body, "first_name") ELSE row.first_name,
                !.last_name = IF HasField(body, "last_name")
                              THEN CharValue(body, "last_name") ELSE row.last_name,
                !.email = IF HasField(body, "email")
                          THEN CharValue(body, "email") ELSE row.email]

\* ProfileSerializer.update: id, email and date_joined are read-only
ProfileApply(row, body) ==
    [row EXCEPT !.first_name = IF HasField(body, "first_name")
                               THEN CharValue(body, "first_name") ELSE row.first_name,
                !.last_name = IF HasField(body, "last_name")
                              THEN CharValue(body, "last_name") ELSE row.last_name]

\* PUT and PATCH /auth/profile: no field is required, so the two differ in
\* name only
ProfileUpdate(cred, body, partial) ==
    LET op == IF partial THEN "profile_patch" ELSE "profile_put" IN
    /\ IF ~IsAuthenticated(cred)
       THEN /\ Respond(op, cred, 0, body, 401, {})
            /\ UNCHANGED users
       ELSE IF ProfileErrors(body) # {}
       THEN /\ Respond(op, cred, 0, body, 400, ProfileErrors(body))
            /\ UNCHANGED users
       ELSE /\ users' = [users EXCEPT ![cred[1]] = ProfileApply(users[cred[1]], body)]
            /\ Respond(op, cred, 0, body, 200, ProfileData(cred[1])')
    /\ UNCHANGED <<notes, todo_lists, todo_items, seqs, now, workers>>

----------------------------------------------------------------------------
(* Field validation shared by the resource serializers *)

TitleMaxLength == 200

\* a title field without its max_length
TitleErrorsNoLength(body, partial) ==
    IF HasField(body, "title")
    THEN IF CharValue(body, "title") = <<>> THEN {"title"} ELSE {}
    ELSE IF partial THEN {} ELSE {"title"}

\* CharField(max_length=200), required on create and on PUT; the value is
\* trimmed before it is tested
TitleErrors(body, partial) ==
    IF HasField(body, "title")
    THEN IF CharValue(body, "title") = <<>>
            \/ Len(CharValue(body, "title")) > TitleMaxLength
         THEN {"title"} ELSE {}
    ELSE IF partial THEN {} ELSE {"title"}

\* TextField(), required and not blank
RequiredTextErrors(body, f, partial) ==
    IF HasField(body, f)
    THEN IF CharValue(body, f) = <<>> THEN {f} ELSE {}
    ELSE IF partial THEN {} ELSE {f}

\* the value a writable field takes: the body's, else the one it had
Updated(body, f, old) == IF HasField(body, f) THEN body[f] ELSE old

\* the same for a string field, which is stored trimmed
UpdatedChar(body, f, old) == IF HasField(body, f) THEN CharValue(body, f) ELSE old

----------------------------------------------------------------------------
(* Notes *)

\* Note.objects.filter(user=request.user)
NotesOwnedBy(u) == {n \in DOMAIN notes : notes[n].user = u}

\* NoteListCreateView.get_queryset: the ownership filter, then the search
NoteListQueryset(u, query) ==
    LET search == IF HasField(query, "search") THEN query.search ELSE <<>> IN
    IF search # <<>>
    THEN {n \in NotesOwnedBy(u) :
             \/ IContains(notes[n].title, search)
             \/ IContains(notes[n].content, search)}
    ELSE NotesOwnedBy(u)

\* a listing ordered by the time of the last write instead
NewestFirstByUpdate(table, ids) ==
    {s \in [1..Cardinality(ids) -> ids] :
        /\ \A i, j \in DOMAIN s : i # j => s[i] # s[j]
        /\ \A i, j \in DOMAIN s :
               i < j => table[s[i]].updated_at >= table[s[j]].updated_at}

\* the orderings of a set of rows that Meta.ordering = ["-created_at"] allows
NewestFirst(table, ids) ==
    {s \in [1..Cardinality(ids) -> ids] :
        /\ \A i, j \in DOMAIN s : i # j => s[i] # s[j]
        /\ \A i, j \in DOMAIN s :
               i < j => table[s[i]].created_at >= table[s[j]].created_at}

NoteSerializerErrors(body, partial) ==
    TitleErrors(body, partial) \cup RequiredTextErrors(body, "content", partial)

\* a list view that admits requests without a valid credential
NoteListOpen(cred, query) ==
    /\ IF ~IsAuthenticated(cred)
       THEN Respond("note_list", cred, 0, query, 200, <<>>)
       ELSE \E page \in NewestFirst(notes, NoteListQueryset(cred[1], query)) :
                Respond("note_list", cred, 0, query, 200, page)
    /\ UNCHANGED <<store, seqs, now, workers>>

\* GET /notes?search=
NoteList(cred, query) ==
    /\ IF ~IsAuthenticated(cred)
       THEN Respond("note_list", cred, 0, query, 401, <<>>)
       ELSE \E page \in NewestFirst(notes, NoteListQueryset(cred[1], query)) :
                Respond("note_list", cred, 0, query, 200, page)
    /\ UNCHANGED <<store, seqs, now, workers>>

\* NoteListCreateView.perform_create: serializer.save(user=request.user)
NoteOwnerOnCreate(cred, body) == cred[1]

\* POST /notes
NoteCreate(cred, body) ==
    /\ IF ~IsAuthenticated(cred)
       THEN /\ Respond("note_create", cred, 0, body, 401, {})
            /\ UNCHANGED <<notes, seqs>>
       ELSE IF NoteSerializerErrors(body, FALSE) # {}
       THEN /\ Respond("note_create", cred, 0, body, 400, NoteSerializerErrors(body, FALSE))
            /\ UNCHANGED <<notes, seqs>>
       ELSE LET id == seqs.note + 1 IN
            /\ notes' = (id :> [user |-> NoteOwnerOnCreate(cred, body),
                                title |-> CharValue(body, "title"),
                                content |-> CharValue(body, "content"),
                                created_at |-> now,
                                updated_at |-> now]) @@ notes
            /\ seqs' = [seqs EXCEPT !.note = id]
            /\ Respond("note_create", cred, 0, body, 201, Some(id))
    /\ UNCHANGED <<users, todo_lists, todo_items, now, workers>>


\* the detail queryset without its ownership filter
NoteDetailQuerysetUnscoped(u) == DOMAIN notes

\* NoteDetailView.get_queryset
NoteDetailQueryset(u) == NotesOwnedBy(u)

\* GET /notes/{pk}
NoteRetrieve(cred, pk) ==
    /\ IF ~IsAuthenticated(cred)
       THEN Respond("note_retrieve", cred, pk, <<>>, 401, {})
       ELSE IF pk \notin NoteDetailQueryset(cred[1])
       THEN Respond("note_retrieve", cred, pk, <<>>, 404, {})
       ELSE Respond("note_retrieve", cred, pk, <<>>, 200, notes[pk])
    /\ UNCHANGED <<store, seqs, now, workers>>

\* a serializer whose updated_at is writable
NoteApplyStampFromBody(row, body) ==
    [row EXCEPT !.title = UpdatedChar(body, "title", row.title),
                !.content = UpdatedChar(body, "content", row.content),
                !.updated_at = Updated(body, "updated_at", now)]

\* NoteSerializer.update: the writable fields are title and content
NoteApply(row, body) ==
    [row EXCEPT !.title = UpdatedChar(body, "title", row.title),
                !.content = UpdatedChar(body, "content", row.content),
                !.updated_at = now]

\* PUT (partial = FALSE) and PATCH (partial = TRUE) /notes/{pk}
NoteUpdate(cred, pk, body, partial) ==
    LET op == IF partial THEN "note_patch" ELSE "note_put" IN
    /\ IF ~IsAuthenticated(cred)
       THEN /\ Respond(op, cred, pk, body, 401, {})
            /\ UNCHANGED notes
       ELSE IF pk \notin NoteDetailQueryset(cred[1])
       THEN /\ Respond(op, cred, pk, body, 404, {})
            /\ UNCHANGED notes
       ELSE IF NoteSerializerErrors(body, partial) # {}
       THEN /\ Respond(op, cred, pk, body, 400, NoteSerializerErrors(body, partial))
            /\ UNCHANGED notes
       ELSE /\ notes' = [notes EXCEPT ![pk] = NoteApply(notes[pk], body)]
            /\ Respond(op, cred, pk, body, 200, {})
    /\ UNCHANGED <<users, todo_lists, todo_items, seqs, now, workers>>

\* DELETE /notes/{pk}
NoteDestroy(cred, pk) ==
    /\ IF ~IsAuthenticated(cred)
       THEN /\ Respond("note_delete", cred, pk, <<>>, 401, {})
            /\ UNCHANGED notes
       ELSE IF pk \notin NoteDetailQueryset(cred[1])
       THEN /\ Respond("note_delete", cred, pk, <<>>, 404, {})
            /\ UNCHANGED notes
       ELSE /\ notes' = Remove(notes, {pk})
            /\ Respond("note_delete", cred, pk, <<>>, 204, {})
    /\ UNCHANGED <<users, todo_lists, todo_items, seqs, now, workers>>

----------------------------------------------------------------------------
(* JSON values of a request body, for the one field that is not a string *)

JBool(b) == [t |-> "bool", v |-> b]
JStr(s) == [t |-> "str", v |-> s]
JInt(n) == [t |-> "int", v |-> n]

\* Python truthiness of a decoded JSON value
Truthy(j) ==
    CASE j.t = "bool" -> j.v
      [] j.t = "str" -> j.v # <<>>
      [] j.t = "int" -> j.v # 0

TrueStrings == {<<"t">>, <<"T">>, <<"y">>, <<"Y">>, <<"1">>, <<"o","n">>,
                <<"y","e","s">>, <<"t","r","u","e">>, <<"T","r","u","e">>,
                <<"T","R","U","E">>}
FalseStrings == {<<"f">>, <<"F">>, <<"n">>, <<"N">>, <<"0">>, <<"n","o">>,
                 <<"o","f","f">>, <<"f","a","l","s","e">>, <<"F","a","l","s","e">>,
                 <<"F","A","L","S","E">>}

\* BooleanField.to_internal_value: Some(boolean), or None when invalid
ToBoolean(j) ==
    CASE j.t = "bool" -> Some(j.v)
      [] j.t = "str" -> IF j.v \in TrueStrings THEN Some(TRUE)
                        ELSE IF j.v \in FalseStrings THEN Some(FALSE)
                        ELSE None
      [] j.t = "int" -> IF j.v = 1 THEN Some(TRUE)
                        ELSE IF j.v = 0 THEN Some(FALSE)
                        ELSE None

----------------------------------------------------------------------------
(* Todo lists *)

\* TodoList.objects.filter(user=request.user)
ListsOwnedBy(u) == {l \in DOMAIN todo_lists : todo_lists[l].user = u}

\* TodoListListCreateView.get_queryset: the ownership filter only
TodoListListQueryset(u, query) == ListsOwnedBy(u)

\* TodoListDetailView.get_queryset
TodoListDetailQueryset(u) == ListsOwnedBy(u)

\* title is required; description is TextField(blank=True)
TodoListSerializerErrors(body, partial) == TitleErrors(body, partial)

\* a nested collection that is not filtered by its list
ItemsOfAnyList(l) == DOMAIN todo_items

\* the related_name="items" of a list
ItemsOf(l) == {i \in DOMAIN todo_items : todo_items[i].todo_list = l}

\* GET /todos?search=
TodoListList(cred, query) ==
    /\ IF ~IsAuthenticated(cred)
       THEN Respond("list_list", cred, 0, query, 401, <<>>)
       ELSE \E page \in NewestFirst(todo_lists, TodoListListQueryset(cred[1], query)) :
                Respond("list_list", cred, 0, query, 200, page)
    /\ UNCHANGED <<store, seqs, now, workers>>


\* the owner taken from the body when the body names one
TodoListOwnerFromBody(cred, body) ==
    IF HasField(body, "user") THEN body.user ELSE cred[1]

\* TodoListListCreateView.perform_create: serializer.save(user=request.user)
TodoListOwnerOnCreate(cred, body) == cred[1]

\* POST /todos
TodoListCreate(cred, body) ==
    /\ IF ~IsAuthenticated(cred)
       THEN /\ Respond("list_create", cred, 0, body, 401, {})
            /\ UNCHANGED <<todo_lists, seqs>>
       ELSE IF TodoListSerializerErrors(body, FALSE) # {}
       THEN /\ Respond("list_create", cred, 0, body, 400,
                       TodoListSerializerErrors(body, FALSE))
            /\ UNCHANGED <<todo_lists, seqs>>
       ELSE LET id == seqs.list + 1 IN
            /\ todo_lists' = (id :> [user |-> TodoListOwnerOnCreate(cred, body),
                                     title |-> CharValue(body, "title"),
                                     description |-> OptField(body, "description"),
                                     created_at |-> now,
                                     updated_at |-> now]) @@ todo_lists
            /\ seqs' = [seqs EXCEPT !.list = id]
            /\ Respond("list_create", cred, 0, body, 201, Some(id))
    /\ UNCHANGED <<users, notes, todo_items, now, workers>>

\* GET /todos/{pk}: the list with its nested, read-only items
TodoListRetrieve(cred, pk) ==
    /\ IF ~IsAuthenticated(cred)
       THEN Respond("list_retrieve", cred, pk, <<>>, 401, {})
       ELSE IF pk \notin TodoListDetailQueryset(cred[1])
       THEN Respond("list_retrieve", cred, pk, <<>>, 404, {})
       ELSE Respond("list_retrieve", cred, pk, <<>>, 200,
                    [i \in ItemsOf(pk) |-> todo_items[i]])
    /\ UNCHANGED <<store, seqs, now, workers>>

\* TodoListSerializer.update: the writable fields are title and description
TodoListApply(row, body) ==
    [row EXCEPT !.title = UpdatedChar(body, "title", row.title),
                !.description = UpdatedChar(body, "description", row.description),
                !.updated_at = now]

\* PUT and PATCH /todos/{pk}
TodoListUpdate(cred, pk, body, partial) ==
    LET op == IF partial THEN "list_patch" ELSE "list_put" IN
    /\ IF ~IsAuthenticated(cred)
       THEN /\ Respond(op, cred, pk, body, 401, {})
            /\ UNCHANGED todo_lists
       ELSE IF pk \notin TodoListDetailQueryset(cred[1])
       THEN /\ Respond(op, cred, pk, body, 404, {})
            /\ UNCHANGED todo_lists
       ELSE IF TodoListSerializerErrors(body, partial) # {}
       THEN /\ Respond(op, cred, pk, body, 400, TodoListSerializerErrors(body, partial))
            /\ UNCHANGED todo_lists
       ELSE /\ todo_lists' = [todo_lists EXCEPT ![pk] = TodoListApply(todo_lists[pk], body)]
            /\ Respond(op, cred, pk, body, 200, {})
    /\ UNCHANGED <<users, notes, todo_items, seqs, now, workers>>


\* a list deletion that takes no item with it
ItemsCascadedFromNone(l) == {}

\* the items removed with a list by on_delete=CASCADE
ItemsCascadedFrom(l) == ItemsOf(l)

\* instance.delete() on a list: the list and its items, in one transaction
DeleteListCascade(l) ==
    /\ todo_lists' = Remove(todo_lists, {l})
    /\ todo_items' = Remove(todo_items, ItemsCascadedFrom(l))

\* a delete that answers 204 again when the list is no longer there
TodoListDestroyIdempotent(cred, pk) ==
    /\ IF ~IsAuthenticated(cred)
       THEN /\ Respond("list_delete", cred, pk, <<>>, 401, {})
            /\ UNCHANGED <<todo_lists, todo_items>>
       ELSE IF pk \notin TodoListDetailQueryset(cred[1])
       THEN /\ Respond("list_delete", cred, pk, <<>>, 204, {})
            /\ UNCHANGED <<todo_lists, todo_items>>
       ELSE /\ DeleteListCascade(pk)
            /\ Respond("list_delete", cred, pk, <<>>, 204, {})
    /\ UNCHANGED <<users, notes, seqs, now, workers>>

\* DELETE /todos/{pk}
TodoListDestroy(cred, pk) ==
    /\ IF ~IsAuthenticated(cred)
       THEN /\ Respond("list_delete", cred, pk, <<>>, 401, {})
            /\ UNCHANGED <<todo_lists, todo_items>>
       ELSE IF pk \notin TodoListDetailQueryset(cred[1])
       THEN /\ Respond("list_delete", cred, pk, <<>>, 404, {})
            /\ UNCHANGED <<todo_lists, todo_items>>
       ELSE /\ DeleteListCascade(pk)
            /\ Respond("list_delete", cred, pk, <<>>, 204, {})
    /\ UNCHANGED <<users, notes, seqs, now, workers>>

----------------------------------------------------------------------------
(* Todo items *)

\* TodoItemListCreateView.get_todo_list: Some(list) or None for NotFound
GetTodoList(u, list_id) ==
    IF list_id \in DOMAIN todo_lists /\ todo_lists[list_id].user = u
    THEN Some(list_id) ELSE None

\* TodoItemSerializer.is_valid
TodoItemSerializerErrors(body, partial) ==
    TitleErrors(body, partial)
    \cup (IF HasField(body, "is_completed") /\ ToBoolean(body.is_completed) = None
          THEN {"is_completed"} ELSE {})

\* the validated is_completed of a body that carries one
ValidatedIsCompleted(body) == ToBoolean(body.is_completed)[1]

\* a listing of all the items of the requester, whatever their list
TodoItemListOfUser(cred, list_id) ==
    /\ IF ~IsAuthenticated(cred)
       THEN Respond("item_list", cred, list_id, <<>>, 401, <<>>)
       ELSE IF GetTodoList(cred[1], list_id) = None
       THEN Respond("item_list", cred, list_id, <<>>, 404, <<>>)
       ELSE \E page \in NewestFirst(todo_items,
                                     ItemsOfLists(ListsOwnedBy(cred[1]))) :
                Respond("item_list", cred, list_id, <<>>, 200, page)
    /\ UNCHANGED <<store, seqs, now, workers>>

\* GET /todos/{list_id}/items
TodoItemList(cred, list_id) ==
    /\ IF ~IsAuthenticated(cred)
       THEN Respond("item_list", cred, list_id, <<>>, 401, <<>>)
       ELSE IF GetTodoList(cred[1], list_id) = None
       THEN Respond("item_list", cred, list_id, <<>>, 404, <<>>)
       ELSE \E page \in NewestFirst(todo_items, ItemsOf(GetTodoList(cred[1], list_id)[1])) :
                Respond("item_list", cred, list_id, <<>>, 200, page)
    /\ UNCHANGED <<store, seqs, now, workers>>

\* the row that serializer.save(todo_list=todo_list) inserts
NewTodoItem(l, body) ==
    [todo_list |-> l,
     title |-> CharValue(body, "title"),
     description |-> OptField(body, "description"),
     is_completed |-> IF HasField(body, "is_completed")
                      THEN ValidatedIsCompleted(body) ELSE FALSE,
     created_at |-> now,
     updated_at |-> now,
     completed_at |-> None]

\* POST /todos/{list_id}/items: validation first, then perform_create
TodoItemCreate(cred, list_id, body) ==
    /\ IF ~IsAuthenticated(cred)
       THEN /\ Respond("item_create", cred, list_id, body, 401, {})
            /\ UNCHANGED <<todo_items, seqs>>
       ELSE IF TodoItemSerializerErrors(body, FALSE) # {}
       THEN /\ Respond("item_create", cred, list_id, body, 400,
                       TodoItemSerializerErrors(body, FALSE))
            /\ UNCHANGED <<todo_items, seqs>>
       ELSE IF GetTodoList(cred[1], list_id) = None
       THEN /\ Respond("item_create", cred, list_id, body, 404, {})
            /\ UNCHANGED <<todo_items, seqs>>
       ELSE LET id == seqs.item + 1
                l == GetTodoList(cred[1], list_id)[1] IN
            /\ todo_items' = (id :> NewTodoItem(l, body)) @@ todo_items
            /\ seqs' = [seqs EXCEPT !.item = id]
            /\ Respond("item_create", cred, list_id, body, 201, Some(id))
    /\ UNCHANGED <<users, notes, todo_lists, now, workers>>

\* the item queryset without its ownership filter
TodoItemDetailQuerysetUnscoped(u) == DOMAIN todo_items

\* TodoItemDetailView.get_queryset: filter(todo_list__user=request.user)
TodoItemDetailQueryset(u) ==
    {i \in DOMAIN todo_items :
        /\ todo_items[i].todo_list \in DOMAIN todo_lists
        /\ todo_lists[todo_items[i].todo_list].user = u}

\* GET /todos/items/{pk}
TodoItemRetrieve(cred, pk) ==
    /\ IF ~IsAuthenticated(cred)
       THEN Respond("item_retrieve", cred, pk, <<>>, 401, {})
       ELSE IF pk \notin TodoItemDetailQueryset(cred[1])
       THEN Respond("item_retrieve", cred, pk, <<>>, 404, {})
       ELSE Respond("item_retrieve", cred, pk, <<>>, 200, todo_items[pk])
    /\ UNCHANGED <<store, seqs, now, workers>>


\* an item serializer whose todo_list is writable
TodoItemApplyWithParent(row, body) ==
    [row EXCEPT !.title = UpdatedChar(body, "title", row.title),
                !.description = UpdatedChar(body, "description", row.description),
                !.todo_list = Updated(body, "todo_list", row.todo_list),
                !.is_completed = IF HasField(body, "is_completed")
                                 THEN ToBoolean(body.is_completed)[1]
                                 ELSE row.is_completed,
                !.updated_at = now]

\* TodoItemSerializer.update: title, description and is_completed are writable
TodoItemApply(row, body) ==
    [row EXCEPT !.title = UpdatedChar(body, "title", row.title),
                !.description = UpdatedChar(body, "description", row.description),
                !.is_completed = IF HasField(body, "is_completed")
                                 THEN ValidatedIsCompleted(body)
                                 ELSE row.is_completed,
                !.updated_at = now]

\* TodoItemDetailView.perform_update: instance is the row as loaded, body the
\* raw request.data
PerformUpdate(instance, body) ==
    IF HasField(body, "is_completed")
    THEN LET is_completed == body.is_completed IN
         IF Truthy(is_completed) /\ ~instance.is_completed
         THEN [TodoItemApply(instance, body) EXCEPT !.completed_at = Some(now)]
         ELSE IF ~Truthy(is_completed) /\ instance.is_completed
         THEN [TodoItemApply(instance, body) EXCEPT !.completed_at = None]
         ELSE TodoItemApply(instance, body)
    ELSE TodoItemApply(instance, body)

\* PUT and PATCH /todos/items/{pk}
TodoItemUpdate(cred, pk, body, partial) ==
    LET op == IF partial THEN "item_patch" ELSE "item_put" IN
    /\ IF ~IsAuthenticated(cred)
       THEN /\ Respond(op, cred, pk, body, 401, {})
            /\ UNCHANGED todo_items
       ELSE IF pk \notin TodoItemDetailQueryset(cred[1])
       THEN /\ Respond(op, cred, pk, body, 404, {})
            /\ UNCHANGED todo_items
       ELSE IF TodoItemSerializerErrors(body, partial) # {}
       THEN /\ Respond(op, cred, pk, body, 400, TodoItemSerializerErrors(body, partial))
            /\ UNCHANGED todo_items
       ELSE /\ todo_items' = [todo_items EXCEPT ![pk] = PerformUpdate(todo_items[pk], body)]
            /\ Respond(op, cred, pk, body, 200, {})
    /\ UNCHANGED <<users, notes, todo_lists, seqs, now, workers>>

\* DELETE /todos/items/{pk}
TodoItemDestroy(cred, pk) ==
    /\ IF ~IsAuthenticated(cred)
       THEN /\ Respond("item_delete", cred, pk, <<>>, 401, {})
            /\ UNCHANGED todo_items
       ELSE IF pk \notin TodoItemDetailQueryset(cred[1])
       THEN /\ Respond("item_delete", cred, pk, <<>>, 404, {})
            /\ UNCHANGED todo_items
       ELSE /\ todo_items' = Remove(todo_items, {pk})
            /\ Respond("item_delete", cred, pk, <<>>, 204, {})
    /\ UNCHANGED <<users, notes, todo_lists, seqs, now, workers>>

----------------------------------------------------------------------------
(* Time *)

\* the wall clock advances between requests
Tick ==
    /\ now < MaxTime
    /\ now' = now + 1
    /\ UNCHANGED <<store, seqs, last, workers>>

(* Handlers as the steps of concurrent requests. Each worker serves one    *)
(* request at a time; a step is one database statement or transaction, and *)
(* the steps of different workers interleave freely.                       *)

Idle(w) == workers[w] = None

Hold(w, request) == workers' = [workers EXCEPT ![w] = Some(request)]

Release(w) == workers' = [workers EXCEPT ![w] = None]

\* a database that does not enforce the foreign key of TodoItem.todo_list
TodoListForeignKeyUnenforced(l) == TRUE

\* the foreign key TodoItem.todo_list is enforced by the database: a row may
\* only be written while the list it references exists
TodoListForeignKeyHolds(l) == l \in DOMAIN todo_lists

\* POST /todos/{list_id}/items up to and including get_todo_list(): the
\* request is answered at once when it fails, and is otherwise left holding
\* the list it found
TodoItemCreateLookup(w, cred, list_id, body) ==
    /\ Idle(w)
    /\ IF ~IsAuthenticated(cred)
       THEN /\ Respond("item_create", cred, list_id, body, 401, {})
            /\ UNCHANGED workers
       ELSE IF TodoItemSerializerErrors(body, FALSE) # {}
       THEN /\ Respond("item_create", cred, list_id, body, 400,
                       TodoItemSerializerErrors(body, FALSE))
            /\ UNCHANGED workers
       ELSE IF GetTodoList(cred[1], list_id) = None
       THEN /\ Respond("item_create", cred, list_id, body, 404, {})
            /\ UNCHANGED workers
       ELSE /\ Hold(w, [op |-> "item_create", cred |-> cred, pk |-> list_id,
                        body |-> body,
                        todo_list |-> GetTodoList(cred[1], list_id)[1]])
            /\ UNCHANGED last
    /\ UNCHANGED <<store, seqs, now>>

\* serializer.save(todo_list=todo_list): the INSERT, which the database
\* refuses with an IntegrityError (a 500) when the list is gone
TodoItemCreateInsert(w) ==
    /\ ~Idle(w)
    /\ workers[w][1].op = "item_create"
    /\ LET r == workers[w][1]
           id == seqs.item + 1 IN
       IF TodoListForeignKeyHolds(r.todo_list)
       THEN /\ todo_items' = (id :> NewTodoItem(r.todo_list, r.body)) @@ todo_items
            /\ seqs' = [seqs EXCEPT !.item = id]
            /\ Respond("item_create", r.cred, r.pk, r.body, 201, Some(id))
       ELSE /\ Respond("item_create", r.cred, r.pk, r.body, 500, {})
            /\ UNCHANGED <<todo_items, seqs>>
    /\ Release(w)
    /\ UNCHANGED <<users, notes, todo_lists, now>>

\* DELETE /todos/{pk} up to and including get_object()
TodoListDestroyLookup(w, cred, pk) ==
    /\ Idle(w)
    /\ IF ~IsAuthenticated(cred)
       THEN /\ Respond("list_delete", cred, pk, <<>>, 401, {})
            /\ UNCHANGED workers
       ELSE IF pk \notin TodoListDetailQueryset(cred[1])
       THEN /\ Respond("list_delete", cred, pk, <<>>, 404, {})
            /\ UNCHANGED workers
       ELSE /\ Hold(w, [op |-> "list_delete", cred |-> cred, pk |-> pk])
            /\ UNCHANGED last
    /\ UNCHANGED <<store, seqs, now>>

\* instance.delete(): one transaction deleting the items of the list and the
\* list; rows already gone are simply not there to delete
TodoListDestroyDelete(w) ==
    /\ ~Idle(w)
    /\ workers[w][1].op = "list_delete"
    /\ LET r == workers[w][1] IN
       /\ DeleteListCascade(r.pk)
       /\ Respond("list_delete", r.cred, r.pk, <<>>, 204, {})
    /\ Release(w)
    /\ UNCHANGED <<users, notes, seqs, now>>

\* POST /auth/delete-account up to the end of user.delete()'s collection: the
\* lists of the user are read into memory (they have items hanging from them),
\* notes and items are left to DELETE ... WHERE statements
DeleteAccountCollect(w, cred, body) ==
    /\ Idle(w)
    /\ IF ~IsAuthenticated(cred)
       THEN /\ Respond("delete_account", cred, 0, body, 401, {})
            /\ UNCHANGED workers
       ELSE IF DeleteAccountErrors(cred[1], body) # {}
       THEN /\ Respond("delete_account", cred, 0, body, 400,
                       DeleteAccountErrors(cred[1], body))
            /\ UNCHANGED workers
       ELSE /\ Hold(w, [op |-> "delete_account", cred |-> cred, body |-> body,
                        lists |-> ListsOfUser(cred[1])])
            /\ UNCHANGED last
    /\ UNCHANGED <<store, seqs, now>>

\* user.delete()'s transaction: notes of the user, items of the collected
\* lists, the collected lists, the user. A list of the user created since the
\* collection still references the user: the transaction is rolled back with
\* an IntegrityError (a 500)
DeleteAccountDelete(w) ==
    /\ ~Idle(w)
    /\ workers[w][1].op = "delete_account"
    /\ LET r == workers[w][1]
           u == r.cred[1] IN
       IF ListsOfUser(u) \subseteq r.lists
       THEN /\ DeleteUserCascade(u)
            /\ Respond("delete_account", r.cred, 0, r.body, 200, {})
       ELSE /\ Respond("delete_account", r.cred, 0, r.body, 500, {})
            /\ UNCHANGED store
    /\ Release(w)
    /\ UNCHANGED <<seqs, now>>

\* Model.save() on an instance that was loaded from the database: an UPDATE
\* of every column where the id matches and, when that touches no row, an
\* INSERT of the instance under its old id (auto_now_add stamps it anew)
Saved(table, pk, row) ==
    IF pk \in DOMAIN table
    THEN [table EXCEPT ![pk] = row]
    ELSE (pk :> [row EXCEPT !.created_at = now]) @@ table

\* PATCH /notes/{pk} up to the end of is_valid(): get_object() loads the row
NoteUpdateLookup(w, cred, pk, body) ==
    /\ Idle(w)
    /\ IF ~IsAuthenticated(cred)
       THEN /\ Respond("note_patch", cred, pk, body, 401, {})
            /\ UNCHANGED workers
       ELSE IF pk \notin NoteDetailQueryset(cred[1])
       THEN /\ Respond("note_patch", cred, pk, body, 404, {})
            /\ UNCHANGED workers
       ELSE IF NoteSerializerErrors(body, TRUE) # {}
       THEN /\ Respond("note_patch", cred, pk, body, 400,
                       NoteSerializerErrors(body, TRUE))
            /\ UNCHANGED workers
       ELSE /\ Hold(w, [op |-> "note_patch", cred |-> cred, pk |-> pk,
                        body |-> body, instance |-> notes[pk]])
            /\ UNCHANGED last
    /\ UNCHANGED <<store, seqs, now>>

\* serializer.save() of the note as loaded; the INSERT of a note whose user
\* is gone is refused (IntegrityError, a 500)
NoteUpdateSave(w) ==
    /\ ~Idle(w)
    /\ workers[w][1].op = "note_patch"
    /\ LET r == workers[w][1]
           row == NoteApply(r.instance, r.body) IN
       IF r.pk \in DOMAIN notes \/ row.user \in DOMAIN users
       THEN /\ notes' = Saved(notes, r.pk, row)
            /\ Respond("note_patch", r.cred, r.pk, r.body, 200, {})
       ELSE /\ Respond("note_patch", r.cred, r.pk, r.body, 500, {})
            /\ UNCHANGED notes
    /\ Release(w)
    /\ UNCHANGED <<users, todo_lists, todo_items, seqs, now>>

\* PATCH /todos/{pk} up to the end of is_valid()
TodoListUpdateLookup(w, cred, pk, body) ==
    /\ Idle(w)
    /\ IF ~IsAuthenticated(cred)
       THEN /\ Respond("list_patch", cred, pk, body, 401, {})
            /\ UNCHANGED workers
       ELSE IF pk \notin TodoListDetailQueryset(cred[1])
       THEN /\ Respond("list_patch", cred, pk, body, 404, {})
            /\ UNCHANGED workers
       ELSE IF TodoListSerializerErrors(body, TRUE) # {}
       THEN /\ Respond("list_patch", cred, pk, body, 400,
                       TodoListSerializerErrors(body, TRUE))
            /\ UNCHANGED workers
       ELSE /\ Hold(w, [op |-> "list_patch", cred |-> cred, pk |-> pk,
                        body |-> body, instance |-> todo_lists[pk]])
            /\ UNCHANGED last
    /\ UNCHANGED <<store, seqs, now>>

\* serializer.save() of the list as loaded
TodoListUpdateSave(w) ==
    /\ ~Idle(w)
    /\ workers[w][1].op = "list_patch"
    /\ LET r == workers[w][1]
           row == TodoListApply(r.instance, r.body) IN
       IF r.pk \in DOMAIN todo_lists \/ row.user \in DOMAIN users
       THEN /\ todo_lists' = Saved(todo_lists, r.pk, row)
            /\ Respond("list_patch", r.cred, r.pk, r.body, 200, {})
       ELSE /\ Respond("list_patch", r.cred, r.pk, r.body, 500, {})
            /\ UNCHANGED todo_lists
    /\ Release(w)
    /\ UNCHANGED <<users, notes, todo_items, seqs, now>>

\* PATCH /todos/items/{pk} up to the end of is_valid()
TodoItemUpdateLookup(w, cred, pk, body) ==
    /\ Idle(w)
    /\ IF ~IsAuthenticated(cred)
       THEN /\ Respond("item_patch", cred, pk, body, 401, {})
            /\ UNCHANGED workers
       ELSE IF pk \notin TodoItemDetailQueryset(cred[1])
       THEN /\ Respond("item_patch", cred, pk, body, 404, {})
            /\ UNCHANGED workers
       ELSE IF TodoItemSerializerErrors(body, TRUE) # {}
       THEN /\ Respond("item_patch", cred, pk, body, 400,
                       TodoItemSerializerErrors(body, TRUE))
            /\ UNCHANGED workers
       ELSE /\ Hold(w, [op |-> "item_patch", cred |-> cred, pk |-> pk,
                        body |-> body, instance |-> todo_items[pk]])
            /\ UNCHANGED last
    /\ UNCHANGED <<store, seqs, now>>

\* perform_update: the completion decision is taken on the item as loaded,
\* and serializer.save() writes that item back
TodoItemUpdateSave(w) ==
    /\ ~Idle(w)
    /\ workers[w][1].op = "item_patch"
    /\ LET r == workers[w][1]
           row == PerformUpdate(r.instance, r.body) IN
       IF r.pk \in DOMAIN todo_items \/ TodoListForeignKeyHolds(row.todo_list)
       THEN /\ todo_items' = Saved(todo_items, r.pk, row)
            /\ Respond("item_patch", r.cred, r.pk, r.body, 200, {})
       ELSE /\ Respond("item_patch", r.cred, r.pk, r.body, 500, {})
            /\ UNCHANGED todo_items
    /\ Release(w)
    /\ UNCHANGED <<users, notes, todo_lists, seqs, now>>

\* the unique constraint on User.email: an INSERT is refused while another
\* row carries the same email
EmailUniqueHolds(email) == \A u \in DOMAIN users : users[u].email # email

\* POST /auth/register up to the end of is_valid(): validate_email() has
\* looked for the email
RegisterValidate(w, body) ==
    /\ Idle(w)
    /\ IF RegisterErrors(body) # {}
       THEN /\ Respond("register", None, 0, body, 400, RegisterErrors(body))
            /\ UNCHANGED workers
       ELSE /\ Hold(w, [op |-> "register", body |-> body])
            /\ UNCHANGED last
    /\ UNCHANGED <<store, seqs, now>>

\* a create whose INSERT no constraint stands against
RegisterCreateUnchecked(w) ==
    /\ ~Idle(w)
    /\ workers[w][1].op = "register"
    /\ LET body == workers[w][1].body
           id == seqs.user + 1 IN
       /\ users' = (id :> [email |-> CharValue(body, "email"),
                           password |-> MakePassword(CharValue(body, "password")),
                           first_name |-> OptField(body, "first_name"),
                           last_name |-> OptField(body, "last_name"),
                           date_joined |-> now]) @@ users
       /\ seqs' = [seqs EXCEPT !.user = id]
       /\ Respond("register", None, 0, body, 201, Some(id))
    /\ Release(w)
    /\ UNCHANGED <<notes, todo_lists, todo_items, now>>

\* RegisterSerializer.create: User.objects.create_user(), whose INSERT the
\* database refuses (IntegrityError, a 500) when the email has been taken
\* since it was validated
RegisterCreate(w) ==
    /\ ~Idle(w)
    /\ workers[w][1].op = "register"
    /\ LET body == workers[w][1].body
           id == seqs.user + 1 IN
       IF EmailUniqueHolds(CharValue(body, "email"))
       THEN /\ users' = (id :> [email |-> CharValue(body, "email"),
                                password |-> MakePassword(CharValue(body, "password")),
                                first_name |-> OptField(body, "first_name"),
                                last_name |-> OptField(body, "last_name"),
                                date_joined |-> now]) @@ users
            /\ seqs' = [seqs EXCEPT !.user = id]
            /\ Respond("register", None, 0, body, 201, Some(id))
       ELSE /\ Respond("register", None, 0, body, 500, {})
            /\ UNCHANGED <<users, seqs>>
    /\ Release(w)
    /\ UNCHANGED <<notes, todo_lists, todo_items, now>>

----------------------------------------------------------------------------
(* Initial state: an empty database, no request made *)

Init ==
    /\ users = <<>>
    /\ notes = <<>>
    /\ todo_lists = <<>>
    /\ todo_items = <<>>
    /\ seqs = [user |-> 0, note |-> 0, list |-> 0, item |-> 0]
    /\ now = 0
    /\ last = Exchange("none", None, 0, <<>>, 0, {})
    /\ workers = [w \in 1..NumWorkers |-> None]

----------------------------------------------------------------------------
(* The requests the specifications draw from *)

GoodPassword == <<"P","a","s","s","w","o","r","1">>
OtherPassword == <<"T","e","s","t","P","a","s","s","1">>

EmailA == <<"a","@","x">>
EmailB == <<"b","@","x">>

RegisterBodies ==
    {[email |-> e, password |-> GoodPassword] : e \in {EmailA, EmailB}}

\* the ids a URL may name: those handed out so far, and one never handed out
Pks(table) == 1..(seqs[table] + 1)

Plain == <<"a">>
Mixed == <<"A","b">>

\* the credentials of the users registered so far
Tokens == {Some(u) : u \in 1..seqs.user}

----------------------------------------------------------------------------
(* Spec: create, retrieve, update and delete of the three resource kinds.  *)
(* Some bodies try to name the owner or the parent list themselves.        *)

\* the second body lacks content: a PATCH accepts it, a POST or PUT does not
NoteBodies ==
    {[title |-> Plain, content |-> Plain, user |-> 1]}
    \cup {[title |-> Mixed]}

TodoListBodies ==
    {[title |-> Plain]}
    \cup {[title |-> Mixed, user |-> 1]}

TodoItemBodies ==
    {[title |-> Plain]}
    \cup {[title |-> Mixed, todo_list |-> 2]}

RowBudget == seqs.note + seqs.list + seqs.item < MaxRows

Next ==
    \/ seqs.user < MaxUserId /\ \E body \in RegisterBodies : Register(body)
    \/ RowBudget /\ \E cred \in Tokens, body \in NoteBodies : NoteCreate(cred, body)
    \/ \E cred \in Tokens, pk \in Pks("note") : NoteRetrieve(cred, pk)
    \/ \E cred \in Tokens, pk \in Pks("note"), body \in NoteBodies, partial \in BOOLEAN :
           NoteUpdate(cred, pk, body, partial)
    \/ \E cred \in Tokens, pk \in Pks("note") : NoteDestroy(cred, pk)
    \/ RowBudget /\ \E cred \in Tokens, body \in TodoListBodies : TodoListCreate(cred, body)
    \/ \E cred \in Tokens, pk \in Pks("list") : TodoListRetrieve(cred, pk)
    \/ \E cred \in Tokens, pk \in Pks("list"), body \in TodoListBodies, partial \in BOOLEAN :
           TodoListUpdate(cred, pk, body, partial)
    \/ \E cred \in Tokens, pk \in Pks("list") : TodoListDestroy(cred, pk)
    \/ RowBudget /\ \E cred \in Tokens, l \in Pks("list"), body \in TodoItemBodies :
           TodoItemCreate(cred, l, body)
    \/ \E cred \in Tokens, pk \in Pks("item") : TodoItemRetrieve(cred, pk)
    \/ \E cred \in Tokens, pk \in Pks("item"), body \in TodoItemBodies, partial \in BOOLEAN :
           TodoItemUpdate(cred, pk, body, partial)
    \/ \E cred \in Tokens, pk \in Pks("item") : TodoItemDestroy(cred, pk)

Spec == Init /\ [][Next]_vars

----------------------------------------------------------------------------
(* SpecCascade: rows are created, and disappear only with their list or    *)
(* with their owner's account.                                             *)

DeleteAccountBodies == {[password |-> GoodPassword], [password |-> OtherPassword]}

CascadeBudget == seqs.note + seqs.list + seqs.item < MaxCascadeRows

NextCascade ==
    \/ seqs.user < MaxUserId /\ \E body \in RegisterBodies : Register(body)
    \/ CascadeBudget
       /\ \E cred \in Tokens : NoteCreate(cred, [title |-> Plain, content |-> Plain])
    \/ CascadeBudget
       /\ \E cred \in Tokens : TodoListCreate(cred, [title |-> Plain])
    \/ CascadeBudget
       /\ \E cred \in Tokens, l \in Pks("list") : TodoItemCreate(cred, l, [title |-> Plain])
    \/ \E cred \in Tokens, pk \in Pks("list") : TodoListDestroy(cred, pk)
    \/ \E cred \in Tokens, body \in DeleteAccountBodies : DeleteAccount(cred, body)

SpecCascade == Init /\ [][NextCascade]_vars

----------------------------------------------------------------------------
(* SpecItems: the items of todo lists, with the values a client may send   *)
(* for is_completed.                                                       *)

StrFalse == <<"f","a","l","s","e">>

ItemBodies ==
    {[title |-> Plain],
     [title |-> Plain, is_completed |-> JBool(TRUE)],
     [is_completed |-> JBool(TRUE)],
     [is_completed |-> JBool(FALSE)],
     [is_completed |-> JStr(StrFalse)],
     [is_completed |-> JStr(Plain)]}

TodoBudget == seqs.list + seqs.item < MaxTodoRows

NextItems ==
    \/ seqs.user < MaxUserId /\ \E body \in RegisterBodies : Register(body)
    \/ TodoBudget /\ \E cred \in Tokens : TodoListCreate(cred, [title |-> Plain])
    \/ \E cred \in Tokens, l \in Pks("list") : TodoItemList(cred, l)
    \/ TodoBudget /\ \E cred \in Tokens, l \in Pks("list"), body \in ItemBodies :
           TodoItemCreate(cred, l, body)
    \/ \E cred \in Tokens, pk \in Pks("item"), body \in ItemBodies, partial \in BOOLEAN :
           TodoItemUpdate(cred, pk, body, partial)
    \/ \E cred \in Tokens, pk \in Pks("item") : TodoItemDestroy(cred, pk)

SpecItems == Init /\ [][NextItems]_vars

----------------------------------------------------------------------------
(* SpecNotes and SpecLists: listing with a search term                     *)

Other == <<"B">>

SearchTexts == {Plain, Mixed, Other}

SearchQueries ==
    {<<>>, [search |-> <<>>]}
    \cup {[search |-> t] : t \in {<<"a">>, <<"B">>, <<"a","B">>, <<"b","a">>}}

SearchNoteBodies ==
    {[title |-> Plain, content |-> Other],
     [title |-> Other, content |-> Mixed],
     [title |-> Other, content |-> Other]}

NextNotes ==
    \/ seqs.user < MaxUserId /\ \E body \in RegisterBodies : Register(body)
    \/ seqs.note < MaxNoteRows
       /\ \E cred \in Tokens, body \in SearchNoteBodies : NoteCreate(cred, body)
    \/ \E cred \in Tokens, query \in SearchQueries : NoteList(cred, query)
    \/ \E cred \in Tokens, pk \in Pks("note") : NoteDestroy(cred, pk)

SpecNotes == Init /\ [][NextNotes]_vars

SearchListBodies ==
    {[title |-> Plain],
     [title |-> Other, description |-> Mixed],
     [title |-> Other]}

NextLists ==
    \/ seqs.user < MaxUserId /\ \E body \in RegisterBodies : Register(body)
    \/ seqs.list < MaxListRows
       /\ \E cred \in Tokens, body \in SearchListBodies : TodoListCreate(cred, body)
    \/ \E cred \in Tokens, query \in SearchQueries : TodoListList(cred, query)
    \/ \E cred \in Tokens, pk \in Pks("list") : TodoListDestroy(cred, pk)

SpecLists == Init /\ [][NextLists]_vars

(* SpecConc: item creation against the deletion of the list or of its     *)
(* owner, by NumWorkers workers. Registration and list creation set the    *)
(* scene and run uninterrupted.                                            *)

ConcBudget == seqs.list + seqs.item < MaxConcRows

\* a request is taken by the first idle worker
FirstIdle(w) == Idle(w) /\ \A v \in 1..(w - 1) : ~Idle(v)

NextConc ==
    \/ seqs.user < MaxConcUsers
       /\ Register([email |-> EmailA, password |-> GoodPassword])
    \/ ConcBudget /\ \E cred \in Tokens : TodoListCreate(cred, [title |-> Plain])
    \/ ConcBudget /\ \E w \in DOMAIN workers, cred \in Tokens, l \in Pks("list") :
           FirstIdle(w) /\ TodoItemCreateLookup(w, cred, l, [title |-> Plain])
    \/ \E w \in DOMAIN workers : TodoItemCreateInsert(w)
    \/ \E w \in DOMAIN workers, cred \in Tokens, pk \in Pks("list") :
           FirstIdle(w) /\ TodoListDestroyLookup(w, cred, pk)
    \/ \E w \in DOMAIN workers : TodoListDestroyDelete(w)
    \/ \E w \in DOMAIN workers, cred \in Tokens :
           FirstIdle(w) /\ DeleteAccountCollect(w, cred, [password |-> GoodPassword])
    \/ \E w \in DOMAIN workers : DeleteAccountDelete(w)

SpecConc == Init /\ [][NextConc]_vars

----------------------------------------------------------------------------
(* SpecOrder: listings after creates, updates and deletes, with the clock  *)
(* advancing between some requests and not between others.                 *)

OrderBudget == seqs.note + seqs.list + seqs.item < MaxOrderRows

NextOrder ==
    \/ seqs.user < MaxUserId
       /\ Register([email |-> EmailA, password |-> GoodPassword])
    \/ Tick
    \/ OrderBudget /\ \E cred \in Tokens :
           NoteCreate(cred, [title |-> Plain, content |-> Plain])
    \/ \E cred \in Tokens, pk \in DOMAIN notes :
           NoteUpdate(cred, pk, [title |-> Mixed], TRUE)
    \/ \E cred \in Tokens, pk \in DOMAIN notes : NoteDestroy(cred, pk)
    \/ \E cred \in Tokens : NoteList(cred, <<>>)
    \/ OrderBudget /\ \E cred \in Tokens : TodoListCreate(cred, [title |-> Plain])
    \/ \E cred \in Tokens, pk \in DOMAIN todo_lists :
           TodoListUpdate(cred, pk, [title |-> Mixed], TRUE)
    \/ \E cred \in Tokens, pk \in DOMAIN todo_lists : TodoListDestroy(cred, pk)
    \/ \E cred \in Tokens : TodoListList(cred, <<>>)
    \/ OrderBudget /\ \E cred \in Tokens, l \in DOMAIN todo_lists :
           TodoItemCreate(cred, l, [title |-> Plain])
    \/ \E cred \in Tokens, pk \in DOMAIN todo_items :
           TodoItemUpdate(cred, pk, [title |-> Mixed], TRUE)
    \/ \E cred \in Tokens, pk \in DOMAIN todo_items : TodoItemDestroy(cred, pk)
    \/ \E cred \in Tokens, l \in DOMAIN todo_lists : TodoItemList(cred, l)

SpecOrder == Init /\ [][NextOrder]_vars

----------------------------------------------------------------------------
(* SpecAccounts: registration, login, password change and account         *)
(* deletion, with acceptable and unacceptable passwords, and a few rows    *)
(* for an account to own.                                                  *)

TooShort == <<"P","a","s","s","w","o","1">>
NoUpper == <<"p","a","s","s","w","o","r","1">>
NoLower == <<"P","A","S","S","W","O","R","1">>
NoDigit == <<"P","a","s","s","w","o","r","k">>
Padded == <<"P","a","s","s","w","o","1"," ">>

WeakPasswords == {TooShort, NoUpper, NoLower, NoDigit, Padded}

AccountRegisterBodies ==
    RegisterBodies
    \cup {[email |-> EmailA, password |-> OtherPassword], [password |-> GoodPassword]}

LoginBodies ==
    {[email |-> e, password |-> p] : e \in {EmailA, EmailB},
                                     p \in {GoodPassword, OtherPassword}}
    \cup {[email |-> EmailA]}

ChangePasswordBodies ==
    {[old_password |-> o, new_password |-> n] :
        o \in {GoodPassword, OtherPassword},
        n \in {GoodPassword, OtherPassword, TooShort}}
    \cup {[new_password |-> OtherPassword]}

AccountChangeBodies ==
    {[old_password |-> GoodPassword, new_password |-> OtherPassword],
     [old_password |-> OtherPassword, new_password |-> GoodPassword]}

AccountDeleteBodies == DeleteAccountBodies \cup {<<>>}

AccountBudget == seqs.note + seqs.list + seqs.item < MaxAccountRows

NextAccounts ==
    \/ seqs.user < MaxUserId /\ \E body \in AccountRegisterBodies : Register(body)
    \/ \E body \in LoginBodies : Login(body)
    \/ \E cred \in Tokens, body \in AccountChangeBodies : ChangePassword(cred, body)
    \/ \E cred \in Tokens, body \in AccountDeleteBodies : DeleteAccount(cred, body)
    \/ AccountBudget /\ \E cred \in Tokens :
           NoteCreate(cred, [title |-> Plain, content |-> Plain])
    \/ AccountBudget /\ \E cred \in Tokens : TodoListCreate(cred, [title |-> Plain])
    \/ AccountBudget /\ \E cred \in Tokens, l \in DOMAIN todo_lists :
           TodoItemCreate(cred, l, [title |-> Plain])

SpecAccounts == Init /\ [][NextAccounts]_vars

----------------------------------------------------------------------------
(* SpecPolicy: the password policy, at registration and at password change *)

PolicyPasswords == {GoodPassword, OtherPassword} \cup WeakPasswords

PolicyRegisterBodies ==
    {[email |-> EmailA, password |-> p] : p \in PolicyPasswords}
    \cup {[email |-> EmailB, password |-> GoodPassword], [email |-> EmailB]}

PolicyChangeBodies ==
    {[old_password |-> GoodPassword, new_password |-> p] : p \in PolicyPasswords}
    \cup {[old_password |-> OtherPassword, new_password |-> NoLower],
          [old_password |-> GoodPassword]}

NextPolicy ==
    \/ seqs.user < MaxUserId /\ \E body \in PolicyRegisterBodies : Register(body)
    \/ \E cred \in Tokens, body \in PolicyChangeBodies : ChangePassword(cred, body)

SpecPolicy == Init /\ [][NextPolicy]_vars

----------------------------------------------------------------------------
(* SpecAuth: every endpoint, called with no credential, with a credential  *)
(* that was never issued, with the credential of a deleted account and     *)
(* with a valid one.                                                       *)

Forged == Some(0)

AuthCredentials == {None, Forged} \cup Tokens

AuthBudget == seqs.note + seqs.list + seqs.item < MaxAuthRows

NoteBody == [title |-> Plain, content |-> Plain]

TitleBody == [title |-> Plain]

NextAuth ==
    \/ seqs.user < MaxAuthUsers
       /\ Register([email |-> EmailA, password |-> GoodPassword])
    \/ Login([email |-> EmailA, password |-> GoodPassword])
    \/ \E cred \in AuthCredentials : NoteList(cred, <<>>)
    \/ AuthBudget /\ \E cred \in AuthCredentials : NoteCreate(cred, NoteBody)
    \/ \E cred \in AuthCredentials, pk \in Pks("note") : NoteRetrieve(cred, pk)
    \/ \E cred \in AuthCredentials, pk \in Pks("note"), partial \in BOOLEAN :
           NoteUpdate(cred, pk, <<>>, partial)
    \/ \E cred \in AuthCredentials, pk \in Pks("note") : NoteDestroy(cred, pk)
    \/ \E cred \in AuthCredentials : TodoListList(cred, <<>>)
    \/ AuthBudget /\ \E cred \in AuthCredentials : TodoListCreate(cred, TitleBody)
    \/ \E cred \in AuthCredentials, pk \in Pks("list") : TodoListRetrieve(cred, pk)
    \/ \E cred \in AuthCredentials, pk \in Pks("list"), partial \in BOOLEAN :
           TodoListUpdate(cred, pk, <<>>, partial)
    \/ \E cred \in AuthCredentials, pk \in Pks("list") : TodoListDestroy(cred, pk)
    \/ \E cred \in AuthCredentials, l \in Pks("list") : TodoItemList(cred, l)
    \/ AuthBudget /\ \E cred \in AuthCredentials, l \in Pks("list") :
           TodoItemCreate(cred, l, TitleBody)
    \/ \E cred \in AuthCredentials, pk \in Pks("item") : TodoItemRetrieve(cred, pk)
    \/ \E cred \in AuthCredentials, pk \in Pks("item"), partial \in BOOLEAN :
           TodoItemUpdate(cred, pk, <<>>, partial)
    \/ \E cred \in AuthCredentials, pk \in Pks("item") : TodoItemDestroy(cred, pk)
    \/ \E cred \in AuthCredentials : ProfileGet(cred)
    \/ \E cred \in AuthCredentials, partial \in BOOLEAN :
           ProfileUpdate(cred, [first_name |-> Plain], partial)
    \/ \E cred \in AuthCredentials :
           ChangePassword(cred, [old_password |-> GoodPassword,
                                 new_password |-> GoodPassword])
    \/ \E cred \in AuthCredentials :
           DeleteAccount(cred, [password |-> GoodPassword])

SpecAuth == Init /\ [][NextAuth]_vars

----------------------------------------------------------------------------
----------------------------------------------------------------------------
(* SpecProfile: two accounts, the clock, and reads and updates of the     *)
(* profile with bodies that also carry the read-only fields.              *)

ProfileBodies ==
    {<<>>,
     [first_name |-> Mixed],
     [first_name |-> <<>>, last_name |-> Plain],
     [email |-> EmailB],
     [first_name |-> Plain, last_name |-> Mixed, email |-> EmailB,
      id |-> MaxUserId, date_joined |-> MaxTime + 1],
     [first_name |-> Null]}

NextProfile ==
    \/ \E email \in {EmailA, EmailB} :
          /\ seqs.user < MaxUserId
          /\ Register([email |-> email, password |-> GoodPassword])
    \/ Tick
    \/ \E cred \in {None} \cup Tokens : ProfileGet(cred)
    \/ \E cred \in {None} \cup Tokens, body \in ProfileBodies, partial \in BOOLEAN :
          ProfileUpdate(cred, body, partial)

SpecProfile == Init /\ [][NextProfile]_vars

----------------------------------------------------------------------------
----------------------------------------------------------------------------
(* SpecPassword: one email address, registered and registered again after *)
(* a deletion, with logins, password changes and account deletions whose  *)
(* passwords are right, wrong or missing, and rows for the user to own.   *)

PasswordChangeBodies == ChangePasswordBodies \cup {[old_password |-> OtherPassword]}

PasswordLoginBodies ==
    {[email |-> EmailA, password |-> p] : p \in {GoodPassword, OtherPassword}}

NextPassword ==
    \/ /\ seqs.user < MaxUserId
       /\ Register([email |-> EmailA, password |-> GoodPassword])
    \/ \E body \in PasswordLoginBodies : Login(body)
    \/ \E cred \in Tokens, body \in PasswordChangeBodies : ChangePassword(cred, body)
    \/ \E cred \in Tokens, body \in AccountDeleteBodies : DeleteAccount(cred, body)
    \/ \E cred \in Tokens :
          /\ AccountBudget
          /\ NoteCreate(cred, NoteBody)
    \/ \E cred \in Tokens :
          /\ AccountBudget
          /\ TodoListCreate(cred, TitleBody)
    \/ \E cred \in Tokens, l \in DOMAIN todo_lists :
          /\ AccountBudget
          /\ TodoItemCreate(cred, l, TitleBody)

SpecPassword == Init /\ [][NextPassword]_vars

----------------------------------------------------------------------------
----------------------------------------------------------------------------
(* SpecStamps: creates and updates whose bodies also carry created_at and  *)
(* updated_at, with the clock advancing between some of them.              *)

StampNoteBodies ==
    {[title |-> Mixed, content |-> Plain,
      created_at |-> MaxTime + 1, updated_at |-> MaxTime + 1],
     [title |-> Plain]}

StampTitleBodies ==
    {[title |-> Mixed, created_at |-> MaxTime + 1, updated_at |-> MaxTime + 1],
     [description |-> Plain]}

StampBudget == seqs.note + seqs.list + seqs.item < MaxStampRows

NextStamps ==
    \/ /\ seqs.user < MaxAuthUsers
       /\ Register([email |-> EmailA, password |-> GoodPassword])
    \/ Tick
    \/ \E cred \in Tokens, body \in StampNoteBodies :
          /\ StampBudget
          /\ NoteCreate(cred, body)
    \/ \E cred \in Tokens, body \in StampTitleBodies :
          /\ StampBudget
          /\ TodoListCreate(cred, body)
    \/ \E cred \in Tokens, l \in DOMAIN todo_lists, body \in StampTitleBodies :
          /\ StampBudget
          /\ TodoItemCreate(cred, l, body)
    \/ \E cred \in Tokens, pk \in DOMAIN notes, body \in StampNoteBodies,
          partial \in BOOLEAN :
          NoteUpdate(cred, pk, body, partial)
    \/ \E cred \in Tokens, pk \in DOMAIN todo_lists, body \in StampTitleBodies,
          partial \in BOOLEAN :
          TodoListUpdate(cred, pk, body, partial)
    \/ \E cred \in Tokens, pk \in DOMAIN todo_items, body \in StampTitleBodies,
          partial \in BOOLEAN :
          TodoItemUpdate(cred, pk, body, partial)

SpecStamps == Init /\ [][NextStamps]_vars

----------------------------------------------------------------------------
----------------------------------------------------------------------------
(* SpecValid: creates and updates with bodies that lack a required field,  *)
(* leave it blank or overrun the title, next to bodies that are valid.     *)

LongestTitle == [i \in 1..TitleMaxLength |-> "a"]
TooLongTitle == [i \in 1..(TitleMaxLength + 1) |-> "a"]
Blank == <<" ">>

ValidNoteBodies ==
    {[title |-> Plain, content |-> Plain],
     [title |-> LongestTitle, content |-> Mixed],
     [title |-> Mixed],
     [content |-> Mixed],
     [title |-> TooLongTitle, content |-> Plain],
     [title |-> Blank, content |-> Blank],
     [title |-> Plain, content |-> <<>>],
     <<>>}

ValidTitleBodies ==
    {[title |-> Plain],
     [title |-> LongestTitle, description |-> Plain],
     [description |-> Mixed],
     [title |-> TooLongTitle],
     [title |-> Blank],
     <<>>}

ValidBudget == seqs.note + seqs.list + seqs.item < MaxValidRows

NextValid ==
    \/ /\ seqs.user < MaxAuthUsers
       /\ Register([email |-> EmailA, password |-> GoodPassword])
    \/ \E cred \in Tokens, body \in ValidNoteBodies :
          /\ ValidBudget
          /\ NoteCreate(cred, body)
    \/ \E cred \in Tokens, body \in ValidTitleBodies :
          /\ ValidBudget
          /\ TodoListCreate(cred, body)
    \/ \E cred \in Tokens, l \in Pks("list"), body \in ValidTitleBodies :
          /\ ValidBudget
          /\ TodoItemCreate(cred, l, body)
    \/ \E cred \in Tokens, pk \in DOMAIN notes, body \in ValidNoteBodies,
          partial \in BOOLEAN :
          NoteUpdate(cred, pk, body, partial)
    \/ \E cred \in Tokens, pk \in DOMAIN todo_lists, body \in ValidTitleBodies,
          partial \in BOOLEAN :
          TodoListUpdate(cred, pk, body, partial)
    \/ \E cred \in Tokens, pk \in DOMAIN todo_items, body \in ValidTitleBodies,
          partial \in BOOLEAN :
          TodoItemUpdate(cred, pk, body, partial)

SpecValid == Init /\ [][NextValid]_vars

----------------------------------------------------------------------------
----------------------------------------------------------------------------
(* SpecNested: one user with several lists; items are created, completed   *)
(* and reopened, lists are read with their items, and list bodies carry an *)
(* items collection of their own.                                          *)

NestedListBodies ==
    {[title |-> Plain, items |-> <<>>],
     [title |-> Mixed,
      items |-> <<[id |-> 1, title |-> Mixed, is_completed |-> JBool(TRUE)]>>]}

NestedItemBodies ==
    {[title |-> Plain],
     [is_completed |-> JBool(TRUE)],
     [is_completed |-> JBool(FALSE)]}

NextNested ==
    \/ /\ seqs.user < MaxAuthUsers
       /\ Register([email |-> EmailA, password |-> GoodPassword])
    \/ \E cred \in Tokens, body \in NestedListBodies :
          /\ seqs.list < MaxNestedLists
          /\ TodoListCreate(cred, body)
    \/ \E cred \in Tokens, pk \in DOMAIN todo_lists : TodoListRetrieve(cred, pk)
    \/ \E cred \in Tokens, pk \in DOMAIN todo_lists, body \in NestedListBodies,
          partial \in BOOLEAN :
          TodoListUpdate(cred, pk, body, partial)
    \/ \E cred \in Tokens, l \in Pks("list") : TodoItemList(cred, l)
    \/ \E cred \in Tokens, l \in Pks("list") :
          /\ seqs.item < MaxNestedItems
          /\ TodoItemCreate(cred, l, TitleBody)
    \/ \E cred \in Tokens, pk \in DOMAIN todo_items, body \in NestedItemBodies :
          TodoItemUpdate(cred, pk, body, TRUE)

SpecNested == Init /\ [][NextNested]_vars

----------------------------------------------------------------------------
----------------------------------------------------------------------------
(* SpecRace: updates by NumWorkers workers, each loading its row and       *)
(* writing it back in a later step, against other updates and against      *)
(* deletions of the same row.                                              *)

RaceItemBodies ==
    {[title |-> Mixed], [is_completed |-> JBool(TRUE)], [is_completed |-> JBool(FALSE)]}

RaceBudget == seqs.note + seqs.list + seqs.item < MaxRaceRows

NextRace ==
    \/ /\ seqs.user < MaxConcUsers
       /\ Register([email |-> EmailA, password |-> GoodPassword])
    \/ Tick
    \/ \E cred \in Tokens :
          /\ RaceBudget
          /\ NoteCreate(cred, NoteBody)
    \/ \E cred \in Tokens :
          /\ RaceBudget
          /\ TodoListCreate(cred, TitleBody)
    \/ \E cred \in Tokens, l \in DOMAIN todo_lists :
          /\ RaceBudget
          /\ TodoItemCreate(cred, l, TitleBody)
    \/ \E w \in DOMAIN workers, cred \in Tokens, pk \in DOMAIN notes :
          /\ FirstIdle(w)
          /\ NoteUpdateLookup(w, cred, pk, [title |-> Mixed])
    \/ \E w \in DOMAIN workers : NoteUpdateSave(w)
    \/ \E w \in DOMAIN workers, cred \in Tokens, pk \in DOMAIN todo_lists :
          /\ FirstIdle(w)
          /\ TodoListUpdateLookup(w, cred, pk, [title |-> Mixed])
    \/ \E w \in DOMAIN workers : TodoListUpdateSave(w)
    \/ \E w \in DOMAIN workers, cred \in Tokens, pk \in DOMAIN todo_items,
          body \in RaceItemBodies :
          /\ FirstIdle(w)
          /\ TodoItemUpdateLookup(w, cred, pk, body)
    \/ \E w \in DOMAIN workers : TodoItemUpdateSave(w)
    \/ \E cred \in Tokens, pk \in DOMAIN notes : NoteDestroy(cred, pk)
    \/ \E cred \in Tokens, pk \in DOMAIN todo_lists : TodoListDestroy(cred, pk)
    \/ \E cred \in Tokens, pk \in DOMAIN todo_items : TodoItemDestroy(cred, pk)
    \/ \E cred \in Tokens, pk \in Pks("note") : NoteRetrieve(cred, pk)

SpecRace == Init /\ [][NextRace]_vars

----------------------------------------------------------------------------
----------------------------------------------------------------------------
(* SpecFrame: two users, each with rows of their own, and every mutating   *)
(* request, aimed at own rows and at the other user's.                     *)

\* the first user registers with the name and the password that the second
\* one only comes to by a profile update and a password change
FrameRegisterBodies ==
    {[email |-> EmailA, password |-> GoodPassword, first_name |-> Plain],
     [email |-> EmailB, password |-> OtherPassword]}

\* the credentials of the users that exist
FrameTokens == {Some(u) : u \in DOMAIN users}

FrameBudget == seqs.note + seqs.list + seqs.item < MaxFrameRows

NextFrame ==
    \/ \E body \in FrameRegisterBodies :
          /\ seqs.user < MaxUserId
          /\ Register(body)
    \/ \E cred \in FrameTokens :
          /\ FrameBudget
          /\ NoteCreate(cred, NoteBody)
    \/ \E cred \in FrameTokens :
          /\ FrameBudget
          /\ TodoListCreate(cred, TitleBody)
    \/ \E cred \in FrameTokens, l \in DOMAIN todo_lists :
          /\ FrameBudget
          /\ TodoItemCreate(cred, l, TitleBody)
    \/ \E cred \in FrameTokens, pk \in DOMAIN notes :
          NoteUpdate(cred, pk, [title |-> Mixed], TRUE)
    \/ \E cred \in FrameTokens, pk \in DOMAIN todo_lists :
          TodoListUpdate(cred, pk, [title |-> Mixed], TRUE)
    \/ \E cred \in FrameTokens, pk \in DOMAIN todo_items :
          TodoItemUpdate(cred, pk, [is_completed |-> JBool(TRUE)], TRUE)
    \/ \E cred \in FrameTokens, pk \in DOMAIN notes : NoteDestroy(cred, pk)
    \/ \E cred \in FrameTokens, pk \in DOMAIN todo_lists : TodoListDestroy(cred, pk)
    \/ \E cred \in FrameTokens, pk \in DOMAIN todo_items : TodoItemDestroy(cred, pk)
    \/ \E cred \in FrameTokens : ProfileUpdate(cred, [first_name |-> Plain], TRUE)
    \/ \E cred \in FrameTokens :
          ChangePassword(cred, [old_password |-> OtherPassword,
                                new_password |-> GoodPassword])
    \/ \E cred \in FrameTokens : DeleteAccount(cred, [password |-> GoodPassword])

SpecFrame == Init /\ [][NextFrame]_vars

----------------------------------------------------------------------------
----------------------------------------------------------------------------
(* SpecSignup: registrations by NumWorkers workers, each validating its    *)
(* body and creating the user in a later step, and account deletions that  *)
(* free an email again.                                                    *)

SignupBodies ==
    {[email |-> e, password |-> p] :
        e \in {EmailA, EmailB}, p \in {GoodPassword, OtherPassword}}

NextSignup ==
    \/ \E w \in DOMAIN workers, body \in SignupBodies :
          /\ seqs.user < MaxUserId
          /\ FirstIdle(w)
          /\ RegisterValidate(w, body)
    \/ \E w \in DOMAIN workers : RegisterCreate(w)
    \/ \E cred \in Tokens : DeleteAccount(cred, [password |-> GoodPassword])

SpecSignup == Init /\ [][NextSignup]_vars

----------------------------------------------------------------------------
(* Properties of Spec *)

NoteDetailOps == {"note_retrieve", "note_put", "note_patch", "note_delete"}
TodoListDetailOps == {"list_retrieve", "list_put", "list_patch", "list_delete"}
TodoItemDetailOps == {"item_retrieve", "item_put", "item_patch", "item_delete"}

\* the user a stored item belongs to, through its list
ItemOwner(i) == todo_lists[todo_items[i].todo_list].user

\* the exchange names a stored row of its kind that belongs to a user other
\* than the (existing) requester
ForeignTarget(r) ==
    /\ r.cred # None
    /\ r.cred[1] \in DOMAIN users
    /\ \/ r.op \in NoteDetailOps /\ r.pk \in DOMAIN notes
          /\ notes[r.pk].user # r.cred[1]
       \/ r.op \in TodoListDetailOps /\ r.pk \in DOMAIN todo_lists
          /\ todo_lists[r.pk].user # r.cred[1]
       \/ r.op \in TodoItemDetailOps /\ r.pk \in DOMAIN todo_items
          /\ ItemOwner(r.pk) # r.cred[1]

\* C1: a retrieve, PUT, PATCH or DELETE that user U2 issues on a note, list
\* or item of another user U1 is answered 404 (never 403), and no stored row
\* changes in that step.
C1_CrossUserNotFound ==
    [][ForeignTarget(last') => last'.status = 404 /\ store' = store]_vars

\* C1 witness: a user has just been refused, with 404, a PUT on a note that
\* exists and belongs to another user, with a body that validation would
\* have rejected had the note been found.
C1_Witness ==
    /\ last.op = "note_put"
    /\ last.status = 404
    /\ ForeignTarget(last)
    /\ NoteSerializerErrors(last.body, FALSE) # {}

\* C7: a note or list created with 201 belongs to the requester, and an item
\* created with 201 belongs to the list of the URL, whatever the body says.
C7_OwnerFromRequestContext ==
    [][LET r == last' IN
       /\ (r.op = "note_create" /\ r.status = 201)
              => (r.cred # None /\ notes'[r.data[1]].user = r.cred[1])
       /\ (r.op = "list_create" /\ r.status = 201)
              => (r.cred # None /\ todo_lists'[r.data[1]].user = r.cred[1])
       /\ (r.op = "item_create" /\ r.status = 201)
              => todo_items'[r.data[1]].todo_list = r.pk
      ]_vars

\* C7 witness: a note was created from a body naming another, existing user
\* as its owner.
C7_Witness ==
    /\ last.op = "note_create"
    /\ last.status = 201
    /\ HasField(last.body, "user")
    /\ last.body.user # last.cred[1]
    /\ last.body.user \in DOMAIN users

\* the exchange is an update by the owner whose body names an owner or a
\* parent and is otherwise acceptable
OwnerNamingUpdate(r) ==
    /\ r.cred # None
    /\ \/ /\ r.op \in {"note_put", "note_patch"}
          /\ r.pk \in DOMAIN notes /\ notes[r.pk].user = r.cred[1]
          /\ HasField(r.body, "user")
          /\ HasField(r.body, "title") /\ r.body.title # <<>>
          /\ HasField(r.body, "content") /\ r.body.content # <<>>
       \/ /\ r.op \in {"list_put", "list_patch"}
          /\ r.pk \in DOMAIN todo_lists /\ todo_lists[r.pk].user = r.cred[1]
          /\ HasField(r.body, "user")
          /\ HasField(r.body, "title") /\ r.body.title # <<>>
       \/ /\ r.op \in {"item_put", "item_patch"}
          /\ r.pk \in DOMAIN todo_items /\ ItemOwner(r.pk) = r.cred[1]
          /\ HasField(r.body, "todo_list")
          /\ HasField(r.body, "title") /\ r.body.title # <<>>

\* the title of the row an update exchange names, in the given tables
TitleOf(r, ns, ls, is) ==
    IF r.op \in {"note_put", "note_patch"} THEN ns[r.pk].title
    ELSE IF r.op \in {"list_put", "list_patch"} THEN ls[r.pk].title
    ELSE is[r.pk].title

\* C8: as long as a note, list or item exists its owner (for an item: its
\* list) is the one it was created with; an update whose body names an owner
\* or parent is answered 200, writes the other fields and keeps the owner.
C8_OwnerImmutable ==
    [][/\ \A n \in DOMAIN notes \cap DOMAIN notes' : notes'[n].user = notes[n].user
       /\ \A l \in DOMAIN todo_lists \cap DOMAIN todo_lists' :
              todo_lists'[l].user = todo_lists[l].user
       /\ \A i \in DOMAIN todo_items \cap DOMAIN todo_items' :
              todo_items'[i].todo_list = todo_items[i].todo_list
       /\ OwnerNamingUpdate(last')
              => /\ last'.status = 200
                 /\ TitleOf(last', notes', todo_lists', todo_items') = last'.body.title
      ]_vars

\* C8 witness: the owner's PUT on a note named another existing user as the
\* owner, was answered 200, and the note still belongs to the requester.
C8_Witness ==
    /\ last.op = "note_put"
    /\ last.status = 200
    /\ HasField(last.body, "user")
    /\ last.body.user # last.cred[1]
    /\ last.body.user \in DOMAIN users
    /\ last.pk \in DOMAIN notes
    /\ notes[last.pk].user = last.cred[1]
    /\ notes[last.pk].title = last.body.title

----------------------------------------------------------------------------
(* Properties of SpecCascade *)

\* every stored row points at stored rows: notes and lists at a user, items
\* at a list
NoDanglingRows(us, ns, ls, is) ==
    /\ \A n \in DOMAIN ns : ns[n].user \in DOMAIN us
    /\ \A l \in DOMAIN ls : ls[l].user \in DOMAIN us
    /\ \A i \in DOMAIN is : is[i].todo_list \in DOMAIN ls

\* C3: a list deletion answered 204 leaves neither the list nor any item of
\* it, in the very state that follows; no state holds an item whose list is
\* gone.
C3_ListDeleteCascades ==
    [][/\ \A i \in DOMAIN todo_items' : todo_items'[i].todo_list \in DOMAIN todo_lists'
       /\ (last'.op = "list_delete" /\ last'.status = 204)
              => /\ last'.pk \notin DOMAIN todo_lists'
                 /\ \A i \in DOMAIN todo_items' : todo_items'[i].todo_list # last'.pk
      ]_vars

\* C3 witness: the only list ever created has just been deleted; two items
\* had been created under it, no account was ever deleted, and no item is left.
C3_Witness ==
    /\ last.op = "list_delete"
    /\ last.status = 204
    /\ seqs.list = 1
    /\ seqs.item >= 2
    /\ DOMAIN todo_items = {}
    /\ DOMAIN users = 1..seqs.user

\* some row of the given tables belongs to user u, directly or through a list
References(u, ns, ls, is) ==
    \/ \E n \in DOMAIN ns : ns[n].user = u
    \/ \E l \in DOMAIN ls : ls[l].user = u
    \/ \E i \in DOMAIN is : is[i].todo_list \in DOMAIN ls /\ ls[is[i].todo_list].user = u

\* C4: an account deletion answered 200 leaves, in the very state that
\* follows, neither the user nor any note, list or item of that user, and no
\* row that points at a missing user or list.
C4_AccountDeleteCascades ==
    [][(last'.op = "delete_account" /\ last'.status = 200)
          => /\ last'.cred[1] \notin DOMAIN users'
             /\ ~References(last'.cred[1], notes', todo_lists', todo_items')
             /\ NoDanglingRows(users', notes', todo_lists', todo_items')
      ]_vars

\* C4 witness: user 1 has just deleted the account; a note, a list and an
\* item had been created besides the one note of user 2, which is all that
\* is left.
C4_Witness ==
    /\ last.op = "delete_account"
    /\ last.status = 200
    /\ last.cred = Some(1)
    /\ DOMAIN users = {2}
    /\ seqs.note = 2 /\ seqs.list = 1 /\ seqs.item = 1
    /\ Cardinality(DOMAIN notes) = 1
    /\ \A n \in DOMAIN notes : notes[n].user = 2
    /\ DOMAIN todo_lists = {}
    /\ DOMAIN todo_items = {}

----------------------------------------------------------------------------
(* Properties of SpecItems *)

\* C2: every stored item is completed if and only if its completed_at is set.
C2_CompletedIffStamped ==
    \A i \in DOMAIN todo_items :
        todo_items[i].is_completed <=> (todo_items[i].completed_at # None)

\* C6: listing the items of, or creating an item under, a list id that does
\* not exist or belongs to another user is answered 404 and changes no row.
C6_ForeignListIsNotFound ==
    [][LET r == last' IN
       (/\ r.op \in {"item_list", "item_create"}
        /\ r.cred # None
        /\ r.cred[1] \in DOMAIN users
        /\ GetTodoList(r.cred[1], r.pk) = None)
           => (r.status = 404 /\ store' = store)
      ]_vars

----------------------------------------------------------------------------
(* Properties of SpecNotes and SpecLists *)

\* two characters that are the same letter, whatever their case
SameLetter(a, b) ==
    \/ a = b
    \/ \E k \in DOMAIN UpperCase :
           {a, b} = {UpperCase[k], LowerCase[k]}

\* term occurs in text as a run of characters, case disregarded
OccursIgnoringCase(text, term) ==
    \E k \in 0..(Len(text) - Len(term)) :
        \A j \in 1..Len(term) : SameLetter(text[k + j], term[j])

SearchTerm(query) == IF HasField(query, "search") THEN query.search ELSE <<>>

\* the notes of user u that a search for term must return
NotesExpected(u, term) ==
    {n \in DOMAIN notes :
        /\ notes[n].user = u
        /\ \/ term = <<>>
           \/ OccursIgnoringCase(notes[n].title, term)
           \/ OccursIgnoringCase(notes[n].content, term)}

\* C9: GET /notes?search=t returns exactly the requester's notes whose title
\* or content contains t, case disregarded; without a term, or with an empty
\* one, all the requester's notes.
C9_NoteSearchExact ==
    (last.op = "note_list" /\ last.status = 200)
        => /\ Range(last.data) = NotesExpected(last.cred[1], SearchTerm(last.body))
           /\ Len(last.data) = Cardinality(Range(last.data))

\* C9 witness: a search for "aB" returned the requester's one note that holds
\* "Ab", and neither the requester's other note nor the matching note of
\* another user.
C9_Witness ==
    /\ last.op = "note_list"
    /\ last.status = 200
    /\ SearchTerm(last.body) = <<"a","B">>
    /\ Len(last.data) = 1
    /\ notes[last.data[1]].content = Mixed
    /\ \E n \in DOMAIN notes :
           notes[n].user = last.cred[1] /\ notes[n].content # Mixed
    /\ \E n \in DOMAIN notes :
           notes[n].user # last.cred[1] /\ notes[n].content = Mixed

\* C10: GET /todos?search=t returns only lists of the requester whose title
\* or description contains t, case disregarded.
C10_ListSearchFilters ==
    (last.op = "list_list" /\ last.status = 200)
        => \A l \in Range(last.data) :
               /\ todo_lists[l].user = last.cred[1]
               /\ \/ SearchTerm(last.body) = <<>>
                  \/ OccursIgnoringCase(todo_lists[l].title, SearchTerm(last.body))
                  \/ OccursIgnoringCase(todo_lists[l].description, SearchTerm(last.body))

----------------------------------------------------------------------------
(* Properties of SpecConc *)

\* C5: however an item creation interleaves with the deletion of its list or
\* of the list's owner, no stored item references a missing list, no stored
\* list a missing user, and no item is written under a list that is gone.
C5_NoOrphanUnderInterleaving ==
    [][/\ \A i \in DOMAIN todo_items' :
              todo_items'[i].todo_list \in DOMAIN todo_lists'
       /\ \A l \in DOMAIN todo_lists' : todo_lists'[l].user \in DOMAIN users'
       /\ \A i \in (DOMAIN todo_items') \ (DOMAIN todo_items) :
              todo_items'[i].todo_list \in DOMAIN todo_lists
      ]_vars

\* C5 witness: an item creation found its list, the list was removed before
\* the insert, and the insert was refused.
C5_Witness ==
    /\ last.op = "item_create"
    /\ last.status = 500
    /\ last.pk \notin DOMAIN todo_lists
    /\ todo_items = <<>>
    /\ seqs.item = 0

----------------------------------------------------------------------------
(* Properties of SpecOrder *)

\* the rows of table, in the order of sequence s, run from the latest
\* creation time to the earliest: a row created earlier than another never
\* comes before it
CreatedDescending(table, s) ==
    \A i, j \in DOMAIN s :
        table[s[j]].created_at < table[s[i]].created_at => i < j

\* C11: a listing of notes, of todo lists or of the items of a list holds the
\* requester's rows (the list's items), each once, a row created earlier
\* after a row created later; and no request changes the creation time of a
\* row, so that an update never moves it.
C11_ListedNewestFirst ==
    [][LET r == last' IN
       /\ (r.op = "note_list" /\ r.status = 200)
              => /\ Range(r.data) = {n \in DOMAIN notes' : notes'[n].user = r.cred[1]}
                 /\ Len(r.data) = Cardinality(Range(r.data))
                 /\ CreatedDescending(notes', r.data)
       /\ (r.op = "list_list" /\ r.status = 200)
              => /\ Range(r.data) =
                        {l \in DOMAIN todo_lists' : todo_lists'[l].user = r.cred[1]}
                 /\ Len(r.data) = Cardinality(Range(r.data))
                 /\ CreatedDescending(todo_lists', r.data)
       /\ (r.op = "item_list" /\ r.status = 200)
              => /\ Range(r.data) =
                        {i \in DOMAIN todo_items' : todo_items'[i].todo_list = r.pk}
                 /\ Len(r.data) = Cardinality(Range(r.data))
                 /\ CreatedDescending(todo_items', r.data)
       /\ \A n \in DOMAIN notes \cap DOMAIN notes' :
              notes'[n].created_at = notes[n].created_at
       /\ \A l \in DOMAIN todo_lists \cap DOMAIN todo_lists' :
              todo_lists'[l].created_at = todo_lists[l].created_at
       /\ \A i \in DOMAIN todo_items \cap DOMAIN todo_items' :
              todo_items'[i].created_at = todo_items[i].created_at
      ]_vars

\* C11 witness: two items of a list are listed, the later one first, after the
\* earlier one was updated at a time when the later one already existed.
C11_Witness ==
    /\ last.op = "item_list"
    /\ last.status = 200
    /\ Len(last.data) = 2
    /\ todo_items[last.data[1]].created_at > todo_items[last.data[2]].created_at
    /\ todo_items[last.data[2]].updated_at >= todo_items[last.data[1]].created_at
    /\ todo_items[last.data[2]].title = Mixed

----------------------------------------------------------------------------
(* Properties of SpecAccounts *)

\* C12: a registration whose email is that of an existing user is answered
\* 400 with an error on email, and the users are exactly as they were: none
\* added, the existing one unchanged, its password included.
C12_DuplicateEmailRejected ==
    [][LET r == last' IN
       (/\ r.op = "register"
        /\ HasField(r.body, "email")
        /\ \E u \in DOMAIN users : users[u].email = r.body.email)
           => /\ r.status = 400
              /\ "email" \in r.data
              /\ users' = users
              /\ seqs' = seqs
      ]_vars

\* C12 witness: a registration with the email of an existing user and another
\* password than theirs was refused, and their password still checks.
C12_Witness ==
    /\ last.op = "register"
    /\ last.status = 400
    /\ "email" \in last.data
    /\ "password" \notin last.data
    /\ HasField(last.body, "email")
    /\ \E u \in DOMAIN users :
           /\ users[u].email = last.body.email
           /\ ~CheckPassword(u, last.body.password)
           /\ CheckPassword(u, GoodPassword)

----------------------------------------------------------------------------
(* Properties of SpecPolicy *)

\* the policy as stated: eight characters or more, with an uppercase letter,
\* a lowercase letter and a digit among them
Acceptable(p) ==
    /\ Len(p) >= 8
    /\ \E i \in DOMAIN p : p[i] \in Range(UpperCase)
    /\ \E i \in DOMAIN p : p[i] \in Range(LowerCase)
    /\ \E i \in DOMAIN p : p[i] \in Digits

\* C13: the validator accepts exactly the passwords the policy describes; a
\* registration (on password) and a password change (on new_password) answer
\* 400 with an error on that field for every other password and write
\* nothing, and raise that error only for a missing password or one that,
\* trimmed, the policy does not accept.
C13_PasswordPolicy ==
    [][LET r == last' IN
       /\ \A p \in PolicyPasswords : (PasswordError(p) = None) <=> Acceptable(p)
       /\ (r.op = "register" /\ HasField(r.body, "password")
           /\ ~Acceptable(r.body.password))
              => /\ r.status = 400 /\ "password" \in r.data
                 /\ store' = store /\ seqs' = seqs
       /\ (r.op = "register" /\ r.status = 400 /\ "password" \in r.data)
              => \/ ~HasField(r.body, "password")
                 \/ ~Acceptable(Strip(r.body.password))
       /\ (r.op = "change_password" /\ r.status # 401
           /\ HasField(r.body, "new_password") /\ ~Acceptable(r.body.new_password))
              => /\ r.status = 400 /\ "new_password" \in r.data
                 /\ store' = store
       /\ (r.op = "change_password" /\ r.status = 400 /\ "new_password" \in r.data)
              => \/ ~HasField(r.body, "new_password")
                 \/ ~Acceptable(Strip(r.body.new_password))
      ]_vars

\* C13 witness: a password change with the right old password and a new one
\* without a digit was refused on new_password, and the old one still checks.
C13_Witness ==
    /\ last.op = "change_password"
    /\ last.status = 400
    /\ last.data = {"new_password"}
    /\ HasField(last.body, "new_password")
    /\ last.body.new_password = NoDigit
    /\ CheckPassword(last.cred[1], last.body.old_password)

----------------------------------------------------------------------------
(* Further properties of SpecAccounts *)

\* the one answer of a failed login
LoginFailure(r) == r.status = 400 /\ r.data = {"non_field_errors"}

\* C14: a login with an email of no account and a login with the email of an
\* account and a password that is not its password get the same answer: 400
\* with the same non-field error, and no credential.
C14_LoginFailuresAlike ==
    [][LET r == last' IN
       (r.op = "login" /\ HasField(r.body, "email") /\ HasField(r.body, "password"))
           => /\ (~\E u \in DOMAIN users : users[u].email = r.body.email)
                     => LoginFailure(r)
              /\ (\E u \in DOMAIN users :
                      /\ users[u].email = r.body.email
                      /\ users[u].password # MakePassword(r.body.password))
                     => LoginFailure(r)
      ]_vars

\* C14 witness: a login with an email of no account was refused, although the
\* password is that of an existing account.
C14_Witness ==
    /\ last.op = "login"
    /\ LoginFailure(last)
    /\ HasField(last.body, "password")
    /\ \A u \in DOMAIN users : users[u].email # last.body.email
    /\ \E u \in DOMAIN users : CheckPassword(u, last.body.password)

----------------------------------------------------------------------------
(* Properties of SpecAuth *)

\* the operations of the endpoints that require a bearer credential
AuthenticatedOps ==
    {"note_list", "note_create", "note_retrieve", "note_put", "note_patch",
     "note_delete",
     "list_list", "list_create", "list_retrieve", "list_put", "list_patch",
     "list_delete",
     "item_list", "item_create", "item_retrieve", "item_put", "item_patch",
     "item_delete",
     "profile_get", "profile_put", "profile_patch",
     "change_password", "delete_account"}

\* C15: a request to a notes, todos, profile, change-password or
\* delete-account endpoint whose credential is absent or is that of no
\* existing user is answered 401, whatever row it names and whatever its
\* body, and no row is created, modified or deleted.
C15_UnauthenticatedIs401 ==
    [][LET r == last' IN
       (r.op \in AuthenticatedOps /\ (r.cred = None \/ r.cred[1] \notin DOMAIN users))
           => r.status = 401 /\ store' = store /\ seqs' = seqs
      ]_vars

\* C15 witness: a PUT without credential on an item that exists, with a body
\* that validation would refuse, was answered 401.
C15_Witness ==
    /\ last.op = "item_put"
    /\ last.status = 401
    /\ last.cred = None
    /\ last.pk \in DOMAIN todo_items
    /\ TodoItemSerializerErrors(last.body, FALSE) # {}

\* some user of table us has this email and this password
AuthenticatesIn(us, email, password) ==
    \E u \in DOMAIN us :
        us[u].email = email /\ us[u].password = MakePassword(password)

\* C19: the step that deletes an account leaves a store in which the email
\* and the password of that account authenticate nobody; from then on a
\* login never succeeds as the deleted user, and a request that carries a
\* credential issued to it is answered 401 on every authenticated endpoint.
C19_DeletedAccountLockedOut ==
    [][LET r == last' IN
       /\ (r.op = "delete_account" /\ r.status = 200)
              => /\ r.cred[1] \notin DOMAIN users'
                 /\ ~AuthenticatesIn(users', users[r.cred[1]].email,
                                     CharValue(r.body, "password"))
       /\ (r.op = "login" /\ r.status = 200) => r.data[1] \in DOMAIN users'
       /\ (r.op = "login" /\ HasField(r.body, "email")
           /\ \A u \in DOMAIN users : users[u].email # r.body.email)
              => r.status = 400
       /\ (r.op \in AuthenticatedOps /\ r.cred # None
           /\ r.cred[1] \in 1..seqs.user /\ r.cred[1] \notin DOMAIN users)
              => r.status = 401
      ]_vars

\* C19 witness: the one account ever registered is deleted, and a login with
\* its email and password has just been refused.
C19_Witness ==
    /\ last.op = "login"
    /\ last.status = 400
    /\ last.body = [email |-> EmailA, password |-> GoodPassword]
    /\ seqs.user = 1
    /\ users = <<>>

\* ids are handed out in sequence and never again: an id that was handed out
\* and names no row names a row that was deleted
Deleted(table, kind, pk) == pk \in 1..seqs[kind] /\ pk \notin DOMAIN table

\* C16: once a note, list or item is deleted (an item also by the deletion of
\* its list), every retrieve, update and delete of its id by an authenticated
\* user is answered 404 and changes nothing; a first delete is answered 204.
C16_DeletedIsNotFound ==
    [][LET r == last' IN
       /\ (/\ r.cred # None /\ r.cred[1] \in DOMAIN users
           /\ \/ r.op \in NoteDetailOps /\ Deleted(notes, "note", r.pk)
              \/ r.op \in TodoListDetailOps /\ Deleted(todo_lists, "list", r.pk)
              \/ r.op \in TodoItemDetailOps /\ Deleted(todo_items, "item", r.pk))
              => r.status = 404 /\ store' = store
       /\ (r.op \in {"note_delete", "list_delete", "item_delete"} /\ r.status = 204)
              => /\ r.op = "note_delete" =>
                        r.pk \in DOMAIN notes /\ r.pk \notin DOMAIN notes'
                 /\ r.op = "list_delete" =>
                        r.pk \in DOMAIN todo_lists /\ r.pk \notin DOMAIN todo_lists'
                 /\ r.op = "item_delete" =>
                        r.pk \in DOMAIN todo_items /\ r.pk \notin DOMAIN todo_items'
      ]_vars

\* C16 witness: the owner has deleted a list that held an item, and the
\* deletion of that item has just been answered 404.
C16_Witness ==
    /\ last.op = "item_delete"
    /\ last.status = 404
    /\ last.cred # None
    /\ last.cred[1] \in DOMAIN users
    /\ Deleted(todo_items, "item", last.pk)
    /\ seqs.list = 1
    /\ Deleted(todo_lists, "list", 1)

----------------------------------------------------------------------------
(* Properties of SpecPassword *)

\* C17, as stated: after a password change answered 200 the old password no
\* longer authenticates the email and the new one does.
C17_OldPasswordStopsWorking ==
    [][LET r == last' IN
       (r.op = "change_password" /\ r.status = 200)
           => /\ AuthenticatesIn(users', users[r.cred[1]].email,
                                 CharValue(r.body, "new_password"))
              /\ ~AuthenticatesIn(users', users[r.cred[1]].email,
                                  CharValue(r.body, "old_password"))
      ]_vars

\* C17, amended: after a password change answered 200 the new password
\* authenticates the email, and the old one no longer does when the two
\* differ; a login is answered 200 exactly when its password is the stored
\* one of its email, and 400 otherwise.
C17_PasswordChangeTakesEffect ==
    [][LET r == last' IN
       /\ (r.op = "change_password" /\ r.status = 200)
              => LET email == users[r.cred[1]].email
                     old == CharValue(r.body, "old_password")
                     new == CharValue(r.body, "new_password") IN
                 /\ AuthenticatesIn(users, email, old)
                 /\ AuthenticatesIn(users', email, new)
                 /\ new # old => ~AuthenticatesIn(users', email, old)
       /\ (r.op = "login" /\ HasField(r.body, "email") /\ HasField(r.body, "password"))
              => /\ r.status \in {200, 400}
                 /\ r.status = 200 <=>
                        AuthenticatesIn(users, CharValue(r.body, "email"),
                                        CharValue(r.body, "password"))
      ]_vars

\* C17 witness: a password was just changed to a different one; the new one
\* checks and the old one does not.
C17_Witness ==
    /\ last.op = "change_password"
    /\ last.status = 200
    /\ last.body.new_password # last.body.old_password
    /\ CheckPassword(last.cred[1], last.body.new_password)
    /\ ~CheckPassword(last.cred[1], last.body.old_password)

\* the exchange is a password change by an existing user whose old_password
\* is not the stored one
WrongOldPassword(r) ==
    /\ r.op = "change_password"
    /\ r.cred # None /\ r.cred[1] \in DOMAIN users
    /\ HasField(r.body, "old_password")
    /\ ~CheckPassword(r.cred[1], CharValue(r.body, "old_password"))

\* the exchange is an account deletion by an existing user whose password is
\* missing or is not the stored one
WrongDeletePassword(r) ==
    /\ r.op = "delete_account"
    /\ r.cred # None /\ r.cred[1] \in DOMAIN users
    /\ \/ ~HasField(r.body, "password")
       \/ ~CheckPassword(r.cred[1], CharValue(r.body, "password"))

\* C18, as stated: a password change with a wrong old_password is answered
\* 400 with an error on old_password, an account deletion with a wrong or
\* missing password 400 with an error on password, and neither changes a row.
C18_WrongPasswordKeyedOnIt ==
    [][LET r == last' IN
       /\ WrongOldPassword(r)
              => r.status = 400 /\ "old_password" \in r.data /\ store' = store
       /\ WrongDeletePassword(r)
              => r.status = 400 /\ "password" \in r.data /\ store' = store
      ]_vars

\* C18, amended: both are answered 400 and change no row; the deletion's
\* error is on password; the password change's error is on old_password when
\* new_password is present and acceptable, and on new_password alone when it
\* is not.
C18_WrongPasswordChangesNothing ==
    [][LET r == last' IN
       /\ WrongOldPassword(r)
              => /\ r.status = 400 /\ store' = store
                 /\ IF /\ HasField(r.body, "new_password")
                       /\ Acceptable(CharValue(r.body, "new_password"))
                    THEN r.data = {"old_password"}
                    ELSE r.data = {"new_password"}
       /\ WrongDeletePassword(r)
              => r.status = 400 /\ r.data = {"password"} /\ store' = store
      ]_vars

\* C18 witness: a user who owns a note was refused a password change for a
\* wrong old_password; the stored password still checks.
C18_Witness ==
    /\ last.op = "change_password"
    /\ last.status = 400
    /\ last.data = {"old_password"}
    /\ HasField(last.body, "old_password")
    /\ last.body.old_password = OtherPassword
    /\ CheckPassword(last.cred[1], GoodPassword)
    /\ \E n \in DOMAIN notes : notes[n].user = last.cred[1]

----------------------------------------------------------------------------
(* Properties of SpecProfile *)

\* C20: a profile update by an authenticated user leaves that user's id,
\* email, date_joined and password, every other user's row and every other
\* table as they were, whatever the body supplies for the read-only fields;
\* with no null name it is answered 200 with the stored profile, whose names
\* are the body's where given and the old ones where not.
C20_ProfileUpdateWritesNamesOnly ==
    [][LET r == last' IN
       (r.op \in {"profile_put", "profile_patch"}
        /\ r.cred # None /\ r.cred[1] \in DOMAIN users)
       => LET u == r.cred[1] IN
          /\ DOMAIN users' = DOMAIN users
          /\ \A v \in DOMAIN users \ {u} : users'[v] = users[v]
          /\ users'[u].email = users[u].email
          /\ users'[u].date_joined = users[u].date_joined
          /\ users'[u].password = users[u].password
          /\ <<notes, todo_lists, todo_items, seqs>>' = <<notes, todo_lists, todo_items, seqs>>
          /\ (\A f \in {"first_name", "last_name"} :
                 HasField(r.body, f) => r.body[f] # Null)
             => /\ r.status = 200
                /\ \A f \in {"first_name", "last_name"} :
                      users'[u][f] = IF HasField(r.body, f)
                                     THEN Strip(r.body[f]) ELSE users[u][f]
                /\ r.data = [id |-> u, email |-> users[u].email,
                             first_name |-> users'[u].first_name,
                             last_name |-> users'[u].last_name,
                             date_joined |-> users[u].date_joined]
      ]_vars

\* C20 witness: a PUT whose body names another user's email, another id and
\* another date_joined was answered 200 and set the names, and that other
\* user exists.
C20_Witness ==
    /\ last.op = "profile_put"
    /\ last.status = 200
    /\ HasField(last.body, "email") /\ HasField(last.body, "id")
    /\ HasField(last.body, "date_joined") /\ HasField(last.body, "first_name")
    /\ last.body.email # users[last.cred[1]].email
    /\ last.body.id # last.cred[1]
    /\ last.body.date_joined # users[last.cred[1]].date_joined
    /\ users[last.cred[1]].first_name = last.body.first_name
    /\ \E v \in DOMAIN users : v # last.cred[1] /\ users[v].email = last.body.email

----------------------------------------------------------------------------
(* Properties of SpecStamps *)

\* the rows of a table, before and after a step: created_at is kept, a row
\* inserted by the step carries the clock in both stamps, a row written by
\* the step carries the clock in updated_at, no other row's updated_at moves,
\* and no row was created after it was last updated
StampsFollow(old, new, created, updated) ==
    /\ \A i \in DOMAIN old \cap DOMAIN new : new[i].created_at = old[i].created_at
    /\ \A i \in created : new[i].created_at = now /\ new[i].updated_at = now
    /\ \A i \in updated : new[i].updated_at = now
    /\ \A i \in (DOMAIN old \cap DOMAIN new) \ updated :
           new[i].updated_at = old[i].updated_at
    /\ \A i \in DOMAIN new : new[i].created_at <= new[i].updated_at

\* the rows a step inserted into, or wrote in, the table of the given kind;
\* a step that moves the clock serves no request
CreatedBy(r, kind) ==
    IF now' = now /\ r.op = kind \o "_create" /\ r.status = 201
    THEN {r.data[1]} ELSE {}

UpdatedBy(r, kind) ==
    IF now' = now /\ r.op \in {kind \o "_put", kind \o "_patch"} /\ r.status = 200
    THEN {r.pk} ELSE {}

\* C21: for every note, list and item, created_at is the clock at creation
\* and never changes, updated_at is the clock at creation and at every
\* successful update, the body sets neither, and created_at <= updated_at.
C21_TimestampsServerAssigned ==
    [][LET r == last' IN
       /\ StampsFollow(notes, notes', CreatedBy(r, "note"), UpdatedBy(r, "note"))
       /\ StampsFollow(todo_lists, todo_lists',
                       CreatedBy(r, "list"), UpdatedBy(r, "list"))
       /\ StampsFollow(todo_items, todo_items',
                       CreatedBy(r, "item"), UpdatedBy(r, "item"))
      ]_vars

\* C21 witness: a note created at one time was updated at a later one by a
\* body that names other stamps.
C21_Witness ==
    /\ last.op \in {"note_put", "note_patch"}
    /\ last.status = 200
    /\ HasField(last.body, "created_at") /\ HasField(last.body, "updated_at")
    /\ notes[last.pk].created_at < notes[last.pk].updated_at
    /\ notes[last.pk].updated_at = now
    /\ last.body.created_at # notes[last.pk].created_at
    /\ last.body.updated_at # notes[last.pk].updated_at

----------------------------------------------------------------------------
(* Properties of SpecValid *)

\* a string that is empty once its outer spaces are removed
BlankText(s) == \A k \in DOMAIN s : s[k] = " "

\* a string whose first and last character that is not a space are more than
\* the longest title apart
OverlongText(s) ==
    \E a \in 1..(Len(s) - TitleMaxLength) :
        /\ s[a] # " "
        /\ \E b \in (a + TitleMaxLength)..Len(s) : s[b] # " "

\* the required fields of a request that are absent or malformed: title for
\* all three kinds, content for notes; a PATCH requires no field
RequiredOf(op) ==
    IF op \in {"note_create", "note_put", "note_patch"}
    THEN {"title", "content"} ELSE {"title"}

Malformed(r) ==
    {f \in RequiredOf(r.op) :
        IF HasField(r.body, f)
        THEN BlankText(r.body[f]) \/ (f = "title" /\ OverlongText(r.body[f]))
        ELSE r.op \notin {"note_patch", "list_patch", "item_patch"}}

\* the request is a create, or an update of a row of the requester
ReachesValidation(r) ==
    /\ r.cred # None /\ r.cred[1] \in DOMAIN users
    /\ \/ r.op \in {"note_create", "list_create", "item_create"}
       \/ r.op \in {"note_put", "note_patch"} /\ r.pk \in NotesOwnedBy(r.cred[1])
       \/ r.op \in {"list_put", "list_patch"} /\ r.pk \in ListsOwnedBy(r.cred[1])
       \/ /\ r.op \in {"item_put", "item_patch"}
          /\ r.pk \in TodoItemDetailQueryset(r.cred[1])

\* C22: a create or an update with an absent or malformed required field is
\* answered 400 with every such field among the keys, and no row is created
\* or changed.
C22_MalformedIsRejected ==
    [][LET r == last' IN
       (ReachesValidation(r) /\ Malformed(r) # {})
       => /\ r.status = 400
          /\ Malformed(r) \subseteq r.data
          /\ store' = store
          /\ seqs' = seqs
      ]_vars

\* C22 witness: a PUT of an existing list with a title of 201 characters was
\* answered 400 on title, and the list has the title it was created with.
C22_Witness ==
    /\ last.op = "list_put"
    /\ last.status = 400
    /\ last.data = {"title"}
    /\ HasField(last.body, "title")
    /\ Len(last.body.title) = TitleMaxLength + 1
    /\ last.pk \in DOMAIN todo_lists
    /\ todo_lists[last.pk].title = Plain

----------------------------------------------------------------------------
(* Properties of SpecNested *)

\* the items of a table whose parent is the list l
ChildrenOf(is, l) == {i \in DOMAIN is : is[i].todo_list = l}

\* C23: a list retrieved by its owner comes with exactly the items whose
\* parent it is, each with its stored is_completed and completed_at; a list
\* create or update leaves every item as it was, whatever items its body
\* carries.
C23_NestedItemsExactAndReadOnly ==
    [][LET r == last' IN
       /\ (r.op = "list_retrieve" /\ r.status = 200)
          => /\ DOMAIN r.data = ChildrenOf(todo_items, r.pk)
             /\ \A i \in DOMAIN r.data :
                   /\ r.data[i].is_completed = todo_items[i].is_completed
                   /\ r.data[i].completed_at = todo_items[i].completed_at
       /\ (r.op \in {"list_create", "list_put", "list_patch"})
          => todo_items' = todo_items /\ seqs'.item = seqs.item
      ]_vars

\* C23 witness: a list was read with its one item, which is complete and
\* stamped, while another list holds another item.
C23_Witness ==
    /\ last.op = "list_retrieve"
    /\ last.status = 200
    /\ \E i \in DOMAIN last.data :
          last.data[i].is_completed /\ last.data[i].completed_at # None
    /\ \E j \in DOMAIN todo_items : todo_items[j].todo_list # last.pk

\* C25: the item listing of a list of the requester holds exactly the items
\* whose parent is that list, and an item created under a list has that list
\* as its parent and joins no other list.
C25_ItemsListedByParent ==
    [][LET r == last' IN
       /\ (r.op = "item_list" /\ r.status = 200)
          => /\ Range(r.data) = ChildrenOf(todo_items, r.pk)
             /\ Len(r.data) = Cardinality(ChildrenOf(todo_items, r.pk))
       /\ (r.op = "item_create" /\ r.status = 201)
          => /\ todo_items'[r.data[1]].todo_list = r.pk
             /\ ChildrenOf(todo_items', r.pk)
                    = ChildrenOf(todo_items, r.pk) \cup {r.data[1]}
             /\ \A l \in DOMAIN todo_lists \ {r.pk} :
                   ChildrenOf(todo_items', l) = ChildrenOf(todo_items, l)
      ]_vars

\* C25 witness: one list was listed with its one item while another list of
\* the same user holds another item.
C25_Witness ==
    /\ last.op = "item_list"
    /\ last.status = 200
    /\ Len(last.data) = 1
    /\ \E j \in DOMAIN todo_items :
          /\ todo_items[j].todo_list # last.pk
          /\ todo_lists[todo_items[j].todo_list].user = last.cred[1]

----------------------------------------------------------------------------
(* Further properties of SpecItems *)

\* the exchange is a successful update of an item
ItemUpdated(r) == r.op \in {"item_put", "item_patch"} /\ r.status = 200

\* C24: a successful item update that makes an incomplete item complete
\* stamps completed_at with the clock, one that makes a complete item
\* incomplete clears it, and one that names the current value of
\* is_completed, or none, leaves is_completed and completed_at as they were.
C24_CompletionMachine ==
    [][LET r == last' IN
       ItemUpdated(r)
       => LET old == todo_items[r.pk]
              new == todo_items'[r.pk] IN
          IF ~HasField(r.body, "is_completed")
          THEN /\ new.is_completed = old.is_completed
               /\ new.completed_at = old.completed_at
          ELSE LET to == ToBoolean(r.body.is_completed)[1] IN
               /\ new.is_completed = to
               /\ new.completed_at = IF to = old.is_completed THEN old.completed_at
                                     ELSE IF to THEN Some(now) ELSE None
      ]_vars

\* C26: a value that validation accepts as false, sent against an incomplete
\* item, leaves completed_at null, and a value accepted as true, sent against
\* a complete item, leaves completed_at as it was.
C26_StampFollowsValidatedValue ==
    [][LET r == last' IN
       (ItemUpdated(r) /\ HasField(r.body, "is_completed"))
       => LET old == todo_items[r.pk]
              new == todo_items'[r.pk]
              accepted == ToBoolean(r.body.is_completed) IN
          /\ (accepted = Some(FALSE) /\ ~old.is_completed /\ old.completed_at = None)
             => new.completed_at = None
          /\ (accepted = Some(TRUE) /\ old.is_completed)
             => new.completed_at = old.completed_at
      ]_vars

----------------------------------------------------------------------------
(* Properties of SpecRace *)

\* C27: the write of an item update that does not mention is_completed
\* leaves the stored is_completed and completed_at of the item as they were
\* just before the write, whatever was written to the item since the update
\* loaded it.
C27_TitleUpdateKeepsCompletion ==
    [][\A w \in DOMAIN workers :
          (/\ ~Idle(w)
           /\ workers'[w] = None
           /\ workers[w][1].op = "item_patch"
           /\ ~HasField(workers[w][1].body, "is_completed")
           /\ workers[w][1].pk \in DOMAIN todo_items
           /\ workers[w][1].pk \in DOMAIN todo_items')
          => LET pk == workers[w][1].pk IN
             /\ todo_items'[pk].is_completed = todo_items[pk].is_completed
             /\ todo_items'[pk].completed_at = todo_items[pk].completed_at
      ]_vars

\* C28: a note, list or item that has left its table never comes back: the
\* rows a step adds to a table carry ids that were not handed out before.
\* (Rows leave the tables of SpecRace only by a delete answered 204.)
C28_DeletedStaysDeleted ==
    [][/\ DOMAIN notes' \ DOMAIN notes \subseteq (seqs.note + 1)..seqs'.note
       /\ DOMAIN todo_lists' \ DOMAIN todo_lists \subseteq (seqs.list + 1)..seqs'.list
       /\ DOMAIN todo_items' \ DOMAIN todo_items \subseteq (seqs.item + 1)..seqs'.item
      ]_vars

----------------------------------------------------------------------------
(* Properties of SpecFrame *)

\* the rows of a table that the user u does not own are the same rows, with
\* the same values, in the table after the step, and the step adds no row
\* that u does not own; owner(t, i) is the owner of row i of table t
OthersUntouched(old, new, u, owner(_, _)) ==
    /\ \A i \in DOMAIN old :
          owner(old, i) # u => i \in DOMAIN new /\ new[i] = old[i]
    /\ \A i \in DOMAIN new \ DOMAIN old : owner(new, i) = u

\* C29: a request by user u leaves every other user, and every note, list
\* and item of another user, as it was, and gives no other user a new row;
\* a request without a user changes no existing row at all; the deletion of
\* one note or one item removes that row and nothing else.
C29_OthersUnchanged ==
    [][LET r == last'
           u == IF r.cred = None THEN 0 ELSE r.cred[1]
           direct(t, i) == t[i].user
           viaList(t, i) == todo_lists[t[i].todo_list].user IN
       /\ \A v \in DOMAIN users \ {u} : v \in DOMAIN users' /\ users'[v] = users[v]
       /\ DOMAIN users' \ DOMAIN users # {} => r.op = "register"
       /\ OthersUntouched(notes, notes', u, direct)
       /\ OthersUntouched(todo_lists, todo_lists', u, direct)
       /\ OthersUntouched(todo_items, todo_items', u, viaList)
       /\ (r.op = "note_delete" /\ r.status = 204)
          => /\ notes' = Remove(notes, {r.pk})
             /\ <<users, todo_lists, todo_items>>' = <<users, todo_lists, todo_items>>
       /\ (r.op = "item_delete" /\ r.status = 204)
          => /\ todo_items' = Remove(todo_items, {r.pk})
             /\ <<users, notes, todo_lists>>' = <<users, notes, todo_lists>>
      ]_vars

\* C29 witness: a user who had a list deleted the account, the list went
\* with it, and the other user's note is still there.
C29_Witness ==
    /\ last.op = "delete_account"
    /\ last.status = 200
    /\ seqs.list > 0
    /\ todo_lists = <<>>
    /\ \E n \in DOMAIN notes :
          notes[n].user # last.cred[1] /\ notes[n].user \in DOMAIN users

----------------------------------------------------------------------------
(* Properties of SpecSignup *)

\* C30: no two users have the same email, however registrations with the
\* same email interleave.
C30_EmailsUnique ==
    \A u, v \in DOMAIN users : users[u].email = users[v].email => u = v

\* C30 witness: a registration passed validation, another one took its email
\* before it created its user, and its create was refused.
C30_Witness ==
    /\ last.op = "register"
    /\ last.status = 500
    /\ Cardinality({u \in DOMAIN users : users[u].email = last.body.email}) = 1

====
